---- MODULE Spec2Model ----
(***************************************************************************)
(* Verification model of the postdraft scraping pipeline                   *)
(* (src/lib/scraping/*, src/lib/services/custom-sources.ts).               *)
(*                                                                         *)
(* Strings are modelled as sequences of tokens.  A URL is a sequence such  *)
(* as <<"https://", "www.", "example.com", "/article">>; a title is a      *)
(* sequence of word atoms and " " (whitespace) atoms; a page body is       *)
(* modelled by the character statistics validateContent reads.             *)
(* Time is a discrete clock in ticks of TickMs milliseconds.               *)
(***************************************************************************)
EXTENDS Integers, Sequences, FiniteSets, TLC

\* ------------------------------------------------------------------------
\* Bounds of the model
\* ------------------------------------------------------------------------
MaxBatch == 2
MaxElapsed == 3
MaxConcurrency == 2

\* ------------------------------------------------------------------------
\* Program constants
\* ------------------------------------------------------------------------
FetchTimeoutMs == 30000
RateLimitWindowMs == 60000
RateLimitTokens == 10
MinContentLength == 100
MaxContentLength == 50000
MinWords == 10
AlphaRatioNum == 3
AlphaRatioDen == 10

\* the clock ticks twice per fetch timeout
TickMs == FetchTimeoutMs \div 2
TimeoutTicks == FetchTimeoutMs \div TickMs
WindowTicks == RateLimitWindowMs \div TickMs

\* ------------------------------------------------------------------------
\* URLs
\* ------------------------------------------------------------------------
HostTokens == {"www.", "old.", "example.com", "other.org", "reddit.com"}
SortTokens == {"/hot", "/top", "/new", "/rising"}

urlMalformed == <<"not a url">>
urlHtml == <<"https://", "example.com", "/article">>
urlHtmlWww == <<"https://", "www.", "example.com", "/article">>
urlFeed == <<"https://", "example.com", "/feed">>
urlXml == <<"https://", "other.org", "/sitemap", ".xml">>
urlRedditPost == <<"https://", "www.", "reddit.com", "/r/startups", "/comments/abc">>
urlSubreddit == <<"https://", "reddit.com", "/r/startups", "/top">>
urlRedditOther == <<"https://", "old.", "reddit.com", "/user/x">>

Locators ==
  {urlMalformed, urlHtml, urlHtmlWww, urlFeed, urlXml, urlRedditPost, urlSubreddit,
   urlRedditOther}

\* every string is taken for a URL
urlParses_anything(url) == Len(url) >= 1

\* new URL(url): succeeds on scheme + host.
urlParses(url) ==
  /\ Len(url) >= 2
  /\ url[1] = "https://"
  /\ url[2] \in HostTokens

\* urlObj.hostname
hostname(url) == SelectSeq(Tail(url), LAMBDA t : t \in HostTokens)

\* urlObj.pathname (the query, a token starting with "?", is not part of it)
pathname(url) ==
  SelectSeq(Tail(url), LAMBDA t : t \notin HostTokens /\ t \notin {"?feed=rss", "?feed=atom"})

isRedditUrl(url) ==
  IF ~urlParses(url) THEN FALSE
  ELSE LET h == hostname(url) IN
       \/ h = <<"reddit.com">>
       \/ h = <<"www.", "reddit.com">>
       \/ (Len(h) >= 2 /\ h[Len(h)] = "reddit.com")

\* url.toLowerCase() contains "/feed", "/rss", "?feed=rss" or "?feed=atom", or
\* ends with ".rss" or ".xml"
isRssFeedUrl(url) ==
  \/ \E i \in 1..Len(url) : url[i] \in {"/feed", "/rss", "?feed=rss", "?feed=atom"}
  \/ (Len(url) >= 1 /\ url[Len(url)] \in {".rss", ".xml"})

\* parseRedditUrl: "post", "subreddit" or "null"
parseRedditUrl(url) ==
  IF ~urlParses(url) THEN "null"
  ELSE LET p == pathname(url) IN
       IF \E i \in 1..(Len(p) - 1) : p[i] = "/r/startups" /\ p[i + 1] = "/comments/abc"
         THEN "post"
       ELSE IF \/ (Len(p) >= 1 /\ p[Len(p)] = "/r/startups")
               \/ (Len(p) >= 2 /\ p[Len(p) - 1] = "/r/startups" /\ p[Len(p)] \in SortTokens)
         THEN "subreddit"
       ELSE "null"

\* extractDomain: the rate-limit key of a URL (www. prefix removed)
extractDomain(url) ==
  IF ~urlParses(url) THEN <<"unknown-domain">>
  ELSE LET h == hostname(url) IN
       IF Len(h) >= 2 /\ h[1] = "www." THEN Tail(h) ELSE h

Domains == {extractDomain(u) : u \in Locators}

\* ------------------------------------------------------------------------
\* Texts and validateContent
\* ------------------------------------------------------------------------
\* A text is described by its length, the number of whitespace-delimited
\* words, the number of ASCII letters and the number of whitespace characters.
Text(len, words, letters, ws) ==
  [len |-> len, words |-> words, letters |-> letters, ws |-> ws]

WellFormedText(t) ==
  /\ t.ws <= t.len
  /\ t.letters <= t.len - t.ws
  /\ t.words <= t.len - t.ws
  /\ (t.len - t.ws > 0) => (t.words >= 1)
  /\ t.words <= t.ws + 1

\* content.replace(/[^a-zA-Z\s]/g, "").length
\* (the class [^a-zA-Z\s] leaves whitespace in place)
alphabeticChars(t) == t.letters + t.ws

\* content.replace(/\s/g, "").length
totalChars(t) == t.len - t.ws

validateContent(t) ==
  IF t.len < MinContentLength
    THEN [isValid |-> FALSE, reason |-> "too short", count |-> t.len]
  ELSE IF t.len > MaxContentLength
    THEN [isValid |-> FALSE, reason |-> "too long", count |-> t.len]
  ELSE IF t.words < MinWords
    THEN [isValid |-> FALSE, reason |-> "too few words", count |-> t.words]
  ELSE IF /\ totalChars(t) > 0
          /\ alphabeticChars(t) * AlphaRatioDen < AlphaRatioNum * totalChars(t)
    THEN [isValid |-> FALSE, reason |-> "special characters", count |-> 0]
  ELSE [isValid |-> TRUE, reason |-> "none", count |-> 0]

\* ------------------------------------------------------------------------
\* Scrape results (types.ts)
\* ------------------------------------------------------------------------
NoText == Text(0, 0, 0, 0)

ContentFields ==
  {"url", "title", "content", "publishDate", "author", "excerpt", "metadata",
   "scrapedAt", "contentLength"}
ErrorFields == {"url", "error", "timestamp"}

ScrapedContent(url, text) ==
  [url |-> url, fields |-> ContentFields, body |-> text, error |-> "none"]

ScrapeError(url, message) ==
  [url |-> url, fields |-> ErrorFields, body |-> NoText, error |-> message]

\* An exception that leaves scrapeUrl (the promise rejects)
Thrown == [url |-> <<>>, fields |-> {}, body |-> NoText, error |-> "thrown"]
\* scrapeUrl has not returned yet
Pending == [url |-> <<>>, fields |-> {}, body |-> NoText, error |-> "pending"]

isScrapedContent(r) == "content" \in r.fields /\ "scrapedAt" \in r.fields
isScrapeError(r) == "error" \in r.fields /\ "timestamp" \in r.fields

\* ------------------------------------------------------------------------
\* Page and post bodies the environment can serve
\* ------------------------------------------------------------------------
tOk == Text(1200, 200, 950, 199)
tFewWords == Text(120, 5, 110, 4)
tSparseLetters == Text(200, 40, 40, 39)
tPostShort == Text(80, 13, 60, 12)
tPostOk == Text(400, 60, 300, 59)
tPostHuge == Text(60000, 9000, 45000, 8999)

PageTexts == {tOk, tFewWords, tSparseLetters}
PostTexts == {tPostShort, tPostOk, tPostHuge}

\* ------------------------------------------------------------------------
\* Rate limiter (rateLimiter.ts)
\* ------------------------------------------------------------------------
\* last tick a run can reach: it starts inside the first window
MaxNow == (WindowTicks - 1) + MaxElapsed

Buckets == 0..(MaxNow \div WindowTicks)

\* GET of a bucket key; a key that was never written reads as 0
bucketCount(store, key, b) == IF b \in Buckets THEN store[key][b] ELSE 0

\* Ratelimit.slidingWindow(10, "1 m"), one atomic script run at time t:
\* requests of the previous bucket are weighted by the part of the window
\* that is still to come, floor((1 - (t % window) / window) * previous).
weightedPrevious(store, key, t) ==
  ((WindowTicks - (t % WindowTicks)) * bucketCount(store, key, (t \div WindowTicks) - 1))
    \div WindowTicks

slidingWindowAllows_offByOne(store, key, t) ==
  weightedPrevious(store, key, t) + bucketCount(store, key, t \div WindowTicks)
    <= RateLimitTokens

slidingWindowAllows(store, key, t) ==
  weightedPrevious(store, key, t) + bucketCount(store, key, t \div WindowTicks)
    < RateLimitTokens

\* ratelimit.limit(key): the decision and the store after it
ratelimitLimit(store, key, t) ==
  IF slidingWindowAllows(store, key, t)
    THEN [success |-> TRUE,
          store |-> [store EXCEPT ![key][t \div WindowTicks] = @ + 1]]
    ELSE [success |-> FALSE, store |-> store]

checkRateLimit_failClosed(url, configured, storeUp, store, t) ==
  IF ~configured
    THEN [success |-> TRUE, via |-> "unconfigured", store |-> store]
  ELSE IF ~storeUp
    THEN [success |-> FALSE, via |-> "threw", store |-> store]
  ELSE LET r == ratelimitLimit(store, extractDomain(url), t) IN
       [success |-> r.success, via |-> "store", store |-> r.store]

\* checkRateLimit(url).  configured: ratelimit and redis are non-null;
\* storeUp: the limit call returns instead of throwing.
checkRateLimit(url, configured, storeUp, store, t) ==
  IF ~configured
    THEN [success |-> TRUE, via |-> "unconfigured", store |-> store]
  ELSE IF ~storeUp
    THEN [success |-> TRUE, via |-> "threw", store |-> store]
  ELSE LET r == ratelimitLimit(store, extractDomain(url), t) IN
       [success |-> r.success, via |-> "store", store |-> r.store]

NoCheck == [success |-> FALSE, via |-> "none"]

\* ------------------------------------------------------------------------
\* State of one batchScrape run (scraper.ts, reddit-scraper.ts)
\* ------------------------------------------------------------------------
VARIABLES
  urls,        \* the locators handed to batchScrape
  concurrency, \* pLimit(concurrency)
  configured,  \* ratelimit and redis were initialised at module load
  t0,          \* tick at which the run starts
  audit,       \* whether rlLog is recorded in this run
  now,         \* clock, in ticks
  rlStore,     \* quota store: allowed requests per key and window bucket
  rlLog,       \* history: allowed checks per key and tick
  rlCheck,     \* per job: result of its last checkRateLimit call
  pc,          \* per job: the await the job is suspended at
  stage,       \* per job: which request is in flight (page, post, listing, subpost)
  timer,       \* per job: tick at which the pending timer fires, -1 if none
  reqStart,    \* per job: tick at which the pending network request started
  outcome,     \* per job: what scrapeUrl returned
  extractor,   \* per job: the extractor scrapeUrl dispatched to
  sub,         \* per job: subreddit discovery loop state
  results,     \* batchScrape's results array
  completed,   \* batchScrape's completed counter
  vText,       \* validateContent: the text handed to it
  vResult,     \* validateContent: what it returned
  topicStore,  \* Topic Store: the rows of trending_topics
  candidate,   \* isDuplicateTopic: title of the candidate topic
  tenant,      \* isDuplicateTopic: userId
  queryFails,  \* isDuplicateTopic: the Topic Store query returns an error
  dupResult    \* isDuplicateTopic: what it returned

\* State of the other entry points of the pipeline
VARIABLES
  title1,         \* calculateSimilarity: first argument
  title2,         \* calculateSimilarity: second argument
  simResult,      \* calculateSimilarity: what it returned
  hashArgs,       \* generateContentHash: the (title, excerpt, url) of each call
  hashes,         \* generateContentHash: what each call returned
  post,           \* calculateTrendingScore: the Reddit post handed to it
  trendingScore,  \* calculateTrendingScore: what it returned
  responses,      \* extractTopicsFromContent: what the Generation Service answers, per batch
  extracted,      \* extractTopicsFromContent: what each batch returned so far
  trendingTopics, \* trending_topics rows as the content-hash gate reads them
  lastScraped,    \* last_scraped_at of every source: the run that wrote it last
  run,            \* the triggerScrape / processNewsletterEmails run in progress
  processed,      \* history: (tenant, source, hash, day) of content earlier runs processed
  runs,           \* number of runs started
  today           \* calendar day

\* State of the entry points specified last
VARIABLES
  parseInput,      \* parseTopicsFromResponse: the response handed to it
  parseOutput,     \* parseTopicsFromResponse: what it returned
  dedupInput,      \* deduplicateTopics: the topics handed to it
  dedupOutput,     \* deduplicateTopics: what it returned
  combineInput,    \* combineContentForBatching: the parts of scrapedContent, by length
  combineMax,      \* combineContentForBatching: maxChars
  combineOutput,   \* combineContentForBatching: what it returned
  listing,         \* the posts the subreddit listing returns, in listing order
  cronSecret,      \* process.env.CRON_SECRET
  cronRequest,     \* the request the morning-scrape route is handling
  cronResponse,    \* the response of the route
  cronRuns,        \* calls of processAllUsersMorningScrape started by the route
  serviceRoleEnv,  \* SUPABASE_SERVICE_ROLE_KEY and NEXT_PUBLIC_SUPABASE_URL are set
  active,          \* per user: the numbers of active custom and newsletter sources
  morning,         \* processAllUsersMorningScrape: its position and its locals
  morningLog,      \* history: the failures that happened and the sources attempted
  topicTable,      \* the trending_topics rows of the tenant
  pipeline,        \* per pipeline: the position of its run and its locals
  pipelineRuns     \* number of pipeline runs started

parseVars == <<parseInput, parseOutput>>
dedupVars == <<dedupInput, dedupOutput>>
combineVars == <<combineInput, combineMax, combineOutput>>
listingVars == <<listing>>
cronVars == <<cronSecret, cronRequest, cronResponse, cronRuns>>
morningVars == <<serviceRoleEnv, active, morning, morningLog>>
storeVars == <<topicTable, pipeline, pipelineRuns>>
lateVars == <<parseVars, dedupVars, combineVars, listingVars, cronVars, morningVars, storeVars>>

IdleParse == parseInput = <<>> /\ parseOutput = <<>>
IdleDedup == dedupInput = <<>> /\ dedupOutput = <<>>
IdleCombine == combineInput = <<>> /\ combineMax = 0 /\ combineOutput = <<>>
IdleListing == listing = <<>>
IdleCron == cronSecret = <<>> /\ cronRequest = <<>> /\ cronResponse = <<>> /\ cronRuns = 0
IdleMorning == serviceRoleEnv = FALSE /\ active = <<>> /\ morning = <<>> /\ morningLog = <<>>
IdleStore == topicTable = <<>> /\ pipeline = <<>> /\ pipelineRuns = 0
IdleLate == IdleParse /\ IdleDedup /\ IdleCombine /\ IdleListing /\ IdleCron /\ IdleMorning /\ IdleStore

\* the variables a later specification leaves alone, and their values
othersParse == <<dedupVars, combineVars, listingVars, cronVars, morningVars, storeVars>>
IdleOthersParse == IdleDedup /\ IdleCombine /\ IdleListing /\ IdleCron /\ IdleMorning /\ IdleStore
othersDedup == <<parseVars, combineVars, listingVars, cronVars, morningVars, storeVars>>
IdleOthersDedup == IdleParse /\ IdleCombine /\ IdleListing /\ IdleCron /\ IdleMorning /\ IdleStore
othersCombine == <<parseVars, dedupVars, listingVars, cronVars, morningVars, storeVars>>
IdleOthersCombine == IdleParse /\ IdleDedup /\ IdleListing /\ IdleCron /\ IdleMorning /\ IdleStore
othersListing == <<parseVars, dedupVars, combineVars, cronVars, morningVars, storeVars>>
IdleOthersListing == IdleParse /\ IdleDedup /\ IdleCombine /\ IdleCron /\ IdleMorning /\ IdleStore
othersCron == <<parseVars, dedupVars, combineVars, listingVars, morningVars, storeVars>>
IdleOthersCron == IdleParse /\ IdleDedup /\ IdleCombine /\ IdleListing /\ IdleMorning /\ IdleStore
othersMorning == <<parseVars, dedupVars, combineVars, listingVars, cronVars, storeVars>>
IdleOthersMorning == IdleParse /\ IdleDedup /\ IdleCombine /\ IdleListing /\ IdleCron /\ IdleStore
othersStore == <<parseVars, dedupVars, combineVars, listingVars, cronVars, morningVars>>
IdleOthersStore == IdleParse /\ IdleDedup /\ IdleCombine /\ IdleListing /\ IdleCron /\ IdleMorning

simVars == <<title1, title2, simResult>>
hashVars == <<hashArgs, hashes>>
scoreVars == <<post, trendingScore>>
extractVars == <<responses, extracted>>
triggerVars == <<trendingTopics, lastScraped, run, processed, runs, today>>
extVars == <<simVars, hashVars, scoreVars, extractVars, triggerVars, lateVars>>

validateVars == <<vText, vResult>>
dupVars == <<topicStore, candidate, tenant, queryFails, dupResult>>
cfgVars == <<urls, concurrency, configured, t0, audit, validateVars, dupVars, extVars>>
rlVars == <<rlStore, rlLog, rlCheck>>
jobVars == <<pc, stage, timer, reqStart, outcome, extractor, sub, results, completed>>
vars == <<cfgVars, now, rlVars, jobVars>>

Jobs == 1..Len(urls)

MaxListing == 2
MaxSelectedPosts == 7

NoSub == [n |-> 0, i |-> 0, ok |-> 0, text |-> NoText]

Min(a, b) == IF a < b THEN a ELSE b

\* aggregatedContent.join("\n") of the subreddit path: two header lines, then
\* per post a ruler, "POST i of n", a ruler, the post's content and "\n"
AggHeader == Text(84, 14, 60, 15)
AggPostOverhead == Text(139, 6, 6, 11)

AddText(a, b) ==
  Text(a.len + b.len, a.words + b.words, a.letters + b.letters, a.ws + b.ws)

\* p-limit: jobs that hold a slot
Active == {j \in Jobs : pc[j] \notin {"queued", "done"}}

\* scrapeUrl line 213: the only dispatch scrapeUrl makes
dispatch(url) == IF isRedditUrl(url) THEN "reddit" ELSE "html"

scrapeUrlCatch_rethrow(url, message) == Thrown

\* scrapeUrl's outer catch (and the catch blocks of scrapeRedditUrl)
scrapeUrlCatch(url, message) == ScrapeError(url, message)

pushResult_successOnly(res, r) == IF isScrapedContent(r) THEN Append(res, r) ELSE res

\* results.push(result)
pushResult(res, r) == Append(res, r)

\* the job returns as soon as its result is pushed
Complete_withoutPacing(j, r) ==
  /\ outcome' = [outcome EXCEPT ![j] = r]
  /\ reqStart' = [reqStart EXCEPT ![j] = -1]
  /\ results' = IF r = Thrown THEN results ELSE pushResult(results, r)
  /\ completed' = IF r = Thrown THEN completed ELSE completed + 1
  /\ pc' = [pc EXCEPT ![j] = "done"]
  /\ timer' = [timer EXCEPT ![j] = -1]

\* scrapeUrl returned r to the batchScrape job: push, count, then pace
Complete(j, r) ==
  /\ outcome' = [outcome EXCEPT ![j] = r]
  /\ reqStart' = [reqStart EXCEPT ![j] = -1]
  /\ IF r = Thrown
       THEN /\ results' = results
            /\ completed' = completed
            /\ pc' = [pc EXCEPT ![j] = "done"]
            /\ timer' = [timer EXCEPT ![j] = -1]
       ELSE /\ results' = pushResult(results, r)
            /\ completed' = completed + 1
            /\ pc' = [pc EXCEPT ![j] = IF completed + 1 < Len(urls) THEN "postDelay" ELSE "done"]
            /\ timer' = [timer EXCEPT ![j] = IF completed + 1 < Len(urls) THEN now + 1 ELSE -1]

\* the job moves on to its next await
Suspend(j, where, deadline, started) ==
  /\ pc' = [pc EXCEPT ![j] = where]
  /\ timer' = [timer EXCEPT ![j] = deadline]
  /\ reqStart' = [reqStart EXCEPT ![j] = started]
  /\ UNCHANGED <<outcome, results, completed>>

\* fetch(..., {signal}) with setTimeout(() => controller.abort(), 30000)
StartFetch(j) == Suspend(j, "fetch", now + TimeoutTicks, now)

\* ------------------------------------------------------------------------
\* Actions: one per resumption of a suspended job
\* ------------------------------------------------------------------------
\* Subreddit loop: post s.i has been dealt with (scraped, skipped or failed)
SubAdvance(j, s) ==
  IF s.i < s.n
    THEN /\ sub' = [sub EXCEPT ![j] = [s EXCEPT !.i = @ + 1]]
         /\ Suspend(j, "gap", now + 1, -1)
    ELSE /\ sub' = [sub EXCEPT ![j] = s]
         /\ Complete(j, IF s.ok = 0
                          THEN ScrapeError(urls[j], "Failed to scrape any posts from subreddit")
                          ELSE ScrapedContent(urls[j], AddText(AggHeader, s.text)))

\* The pending request of job j failed with message msg.  caught: the failure
\* is an exception that reaches a catch block (FALSE: the code returns the
\* ScrapeError itself).
RequestFailed(j, msg, caught) ==
  IF stage[j] = "subpost"
    THEN SubAdvance(j, sub[j])
    ELSE /\ sub' = sub
         /\ Complete(j, IF stage[j] = "page" /\ caught
                          THEN scrapeUrlCatch(urls[j], msg)
                          ELSE ScrapeError(urls[j], msg))

\* p-limit hands a free slot to the first queued job; scrapeUrl runs up to
\* its first await: new URL(url), the Reddit dispatch, checkRateLimit(url)
StartJob(j) ==
  /\ pc[j] = "queued"
  /\ Cardinality(Active) < concurrency
  /\ \A k \in Jobs : k < j => pc[k] # "queued"
  /\ IF ~urlParses(urls[j])
       THEN /\ Complete(j, ScrapeError(urls[j], "Invalid URL format"))
            /\ UNCHANGED extractor
       ELSE /\ Suspend(j, "limit", -1, -1)
            /\ extractor' = [extractor EXCEPT ![j] = dispatch(urls[j])]
  /\ UNCHANGED <<cfgVars, now, rlVars, stage, sub>>

\* checkRateLimit returns (scrapeUrl line 222, scrapeRedditUrl line 447)
LimitReturn(j, storeUp) ==
  /\ pc[j] = "limit"
  /\ (~configured => storeUp)
  /\ LET r == checkRateLimit(urls[j], configured, storeUp, rlStore, now)
         key == extractDomain(urls[j])
     IN /\ rlStore' = r.store
        /\ rlLog' = IF audit /\ r.via = "store" /\ r.success
                       THEN [rlLog EXCEPT ![key][now] = @ + 1] ELSE rlLog
        /\ rlCheck' = [rlCheck EXCEPT ![j] = [success |-> r.success, via |-> r.via]]
        /\ IF ~r.success
             THEN /\ Complete(j, ScrapeError(urls[j], "Rate limit exceeded"))
                  /\ UNCHANGED stage
           ELSE IF extractor[j] = "html"
             THEN /\ Suspend(j, "preDelay", now + 1, -1)
                  /\ UNCHANGED stage
           ELSE IF parseRedditUrl(urls[j]) = "null"
             THEN /\ Complete(j, ScrapeError(urls[j], "Invalid Reddit URL format"))
                  /\ UNCHANGED stage
           ELSE /\ StartFetch(j)
                /\ stage' = [stage EXCEPT ![j] =
                      IF parseRedditUrl(urls[j]) = "post" THEN "post" ELSE "listing"]
  /\ UNCHANGED <<cfgVars, now, extractor, sub>>

\* the 2-5 s sleep before the page fetch is over: fetch(url, ...)
WakePreDelay(j) ==
  /\ pc[j] = "preDelay"
  /\ StartFetch(j)
  /\ stage' = [stage EXCEPT ![j] = "page"]
  /\ UNCHANGED <<cfgVars, now, rlVars, extractor, sub>>

\* the 30 s timer fires while fetch() is pending: AbortError
FetchAbort(j) ==
  /\ pc[j] = "fetch"
  /\ now >= timer[j]
  /\ RequestFailed(j, "Request timeout after 30 seconds", FALSE)
  /\ UNCHANGED <<cfgVars, now, rlVars, stage, extractor>>

\* fetch() rejects: DNS, connection refused, reset
FetchError(j) ==
  /\ pc[j] = "fetch"
  /\ RequestFailed(j, "fetch failed", TRUE)
  /\ UNCHANGED <<cfgVars, now, rlVars, stage, extractor>>

\* fetch() resolves with a non-2xx status; clearTimeout(timeoutId)
FetchHttpError(j) ==
  /\ pc[j] = "fetch"
  /\ RequestFailed(j, "HTTP error status", FALSE)
  /\ UNCHANGED <<cfgVars, now, rlVars, stage, extractor>>

\* fetch() resolves with a 2xx status: clearTimeout(timeoutId), then
\* await response.text() / response.json()
FetchHeaders(j) ==
  /\ pc[j] = "fetch"
  /\ Suspend(j, "body", -1, reqStart[j])
  /\ UNCHANGED <<cfgVars, now, rlVars, stage, extractor, sub>>

\* reading the body rejects, or the JSON is malformed
BodyError(j) ==
  /\ pc[j] = "body"
  /\ RequestFailed(j, "body read failed", TRUE)
  /\ UNCHANGED <<cfgVars, now, rlVars, stage, extractor>>

\* the page body arrived: clean, validate, build the result (lines 291-360)
PageBody(j, text) ==
  /\ pc[j] = "body"
  /\ stage[j] = "page"
  /\ Complete(j, IF validateContent(text).isValid
                   THEN ScrapedContent(urls[j], text)
                   ELSE ScrapeError(urls[j], "Content validation failed"))
  /\ UNCHANGED <<cfgVars, now, rlVars, stage, extractor, sub>>

\* scrapeSingleRedditPost: the text assembled from a post and its comments;
\* null when it is shorter than 100 characters
singleRedditPost(text) ==
  IF text.len < MinContentLength THEN NoText ELSE text

\* the post JSON of a single-post URL arrived (index.ts lines 358-436, 479-499)
PostBody(j, text) ==
  /\ pc[j] = "body"
  /\ stage[j] = "post"
  /\ Complete(j, IF singleRedditPost(text) = NoText
                   THEN ScrapeError(urls[j], "Failed to scrape Reddit post")
                   ELSE ScrapedContent(urls[j], singleRedditPost(text)))
  /\ UNCHANGED <<cfgVars, now, rlVars, stage, extractor, sub>>

\* the subreddit listing arrived with n posts: rank, keep the top 7, fetch
\* the first of them at once
ListingBody(j, n) ==
  /\ pc[j] = "body"
  /\ stage[j] = "listing"
  /\ IF n = 0
       THEN /\ Complete(j, ScrapeError(urls[j], "No posts found in subreddit"))
            /\ UNCHANGED <<stage, sub>>
       ELSE /\ sub' = [sub EXCEPT ![j] =
                  [n |-> Min(n, MaxSelectedPosts), i |-> 1, ok |-> 0, text |-> NoText]]
            /\ stage' = [stage EXCEPT ![j] = "subpost"]
            /\ StartFetch(j)
  /\ UNCHANGED <<cfgVars, now, rlVars, extractor>>

\* the JSON of one selected post arrived
SubPostBody(j, text) ==
  /\ pc[j] = "body"
  /\ stage[j] = "subpost"
  /\ SubAdvance(j, IF singleRedditPost(text) = NoText
                     THEN sub[j]
                     ELSE [sub[j] EXCEPT !.ok = @ + 1,
                                         !.text = AddText(@, AddText(AggPostOverhead, text))])
  /\ UNCHANGED <<cfgVars, now, rlVars, stage, extractor>>

\* the 2 s pause between two selected posts is over
WakeGap(j) ==
  /\ pc[j] = "gap"
  /\ StartFetch(j)
  /\ UNCHANGED <<cfgVars, now, rlVars, stage, extractor, sub>>

\* the 2-5 s pause after a completed job is over: the job returns and
\* p-limit frees its slot
WakePostDelay(j) ==
  /\ pc[j] = "postDelay"
  /\ Suspend(j, "done", -1, -1)
  /\ UNCHANGED <<cfgVars, now, rlVars, stage, extractor, sub>>

\* time passes; a timer that is due fires before the clock moves on
Tick ==
  /\ now < t0 + MaxElapsed
  /\ \A j \in Jobs : timer[j] = -1 \/ now < timer[j]
  /\ now' = now + 1
  /\ UNCHANGED <<cfgVars, rlVars, jobVars>>

\* ------------------------------------------------------------------------
\* Specification of a batchScrape run
\* ------------------------------------------------------------------------
BaseBatches ==
  {<<urlHtml, urlHtmlWww, urlMalformed, urlFeed>>,
   <<urlMalformed, urlFeed, urlHtml, urlXml>>,
   <<urlRedditPost, urlXml, urlFeed, urlHtml>>,
   <<urlSubreddit, urlRedditOther, urlHtml, urlRedditPost>>}

Batches == {SubSeq(b, 1, n) : b \in BaseBatches, n \in 0..MaxBatch}

\* The quota store outlives a run: at the start a key may already hold the
\* requests of an earlier burst made at this very tick.
PriorBurst == RateLimitTokens - 1

InitStore(busy, t) ==
  /\ rlStore = [d \in Domains |-> [b \in Buckets |->
                  IF busy /\ b = t \div WindowTicks THEN PriorBurst ELSE 0]]
  /\ rlLog = [d \in Domains |-> [k \in 0..MaxNow |->
                  IF audit /\ busy /\ k = t THEN PriorBurst ELSE 0]]

InitJobs ==
  /\ rlCheck = [j \in Jobs |-> NoCheck]
  /\ pc = [j \in Jobs |-> "queued"]
  /\ stage = [j \in Jobs |-> "none"]
  /\ timer = [j \in Jobs |-> -1]
  /\ reqStart = [j \in Jobs |-> -1]
  /\ outcome = [j \in Jobs |-> Pending]
  /\ extractor = [j \in Jobs |-> "none"]
  /\ sub = [j \in Jobs |-> NoSub]
  /\ results = <<>>
  /\ completed = 0

\* validateContent has not been called
NoValidation == [isValid |-> FALSE, reason |-> "not called", count |-> 0]
\* isDuplicateTopic has not been called
NoDecision == [called |-> FALSE, value |-> FALSE]

IdleValidate == vText = NoText /\ vResult = NoValidation

IdleDuplicate ==
  /\ topicStore = {}
  /\ candidate = <<>>
  /\ tenant = "u1"
  /\ queryFails = FALSE
  /\ dupResult = NoDecision

\* calculateSimilarity has not been called
NoSimilarity == [called |-> FALSE, num |-> 0, den |-> 1]
IdleSimilarity == title1 = <<>> /\ title2 = <<>> /\ simResult = NoSimilarity

IdleHash == hashArgs = <<>> /\ hashes = <<>>

\* calculateTrendingScore has not been called
NoScore == [called |-> FALSE, value |-> 0]
NoPost == [score |-> 0, upvote_ratio |-> 0, num_comments |-> 0, ageHours |-> 0]
IdleScore == post = NoPost /\ trendingScore = NoScore

IdleExtract == responses = <<>> /\ extracted = <<>>

\* no run in progress
NoRun ==
  [kind |-> "none", userId |-> "none", sourceId |-> "none", pc |-> "idle",
   contentHash |-> "none", recorded |-> FALSE, lookupOk |-> FALSE,
   scraped |-> FALSE, scrapeFailed |-> FALSE, calls |-> 0, extractedCount |-> 0,
   uniqueCount |-> 0, inserted |-> 0, updateIssued |-> FALSE, outcome |-> "none",
   code |-> "none", topics_found |-> 0, marker |-> "none"]

Sources == {"s1", "s2", "s3", "n1"}

IdleTrigger ==
  /\ trendingTopics = {}
  /\ lastScraped = [s \in Sources |-> 0]
  /\ run = NoRun
  /\ processed = {}
  /\ runs = 0
  /\ today = 0

IdleExt == IdleSimilarity /\ IdleHash /\ IdleScore /\ IdleExtract /\ IdleTrigger /\ IdleLate

Init ==
  /\ IdleValidate
  /\ IdleDuplicate
  /\ IdleExt
  /\ urls \in Batches
  /\ concurrency \in 1..MaxConcurrency
  /\ configured \in BOOLEAN
  /\ t0 = 0
  /\ now = t0
  /\ audit = FALSE
  /\ \E busy \in BOOLEAN : (busy => configured) /\ InitStore(busy, t0)
  /\ InitJobs

Next ==
  \/ \E j \in Jobs : StartJob(j)
  \/ \E j \in Jobs, storeUp \in BOOLEAN : LimitReturn(j, storeUp)
  \/ \E j \in Jobs : WakePreDelay(j)
  \/ \E j \in Jobs : FetchAbort(j)
  \/ \E j \in Jobs : FetchError(j)
  \/ \E j \in Jobs : FetchHttpError(j)
  \/ \E j \in Jobs : FetchHeaders(j)
  \/ \E j \in Jobs : BodyError(j)
  \/ \E j \in Jobs, text \in PageTexts : PageBody(j, text)
  \/ \E j \in Jobs, text \in PostTexts : PostBody(j, text)
  \/ \E j \in Jobs, n \in 0..MaxListing : ListingBody(j, n)
  \/ \E j \in Jobs, text \in PostTexts : SubPostBody(j, text)
  \/ \E j \in Jobs : WakeGap(j)
  \/ \E j \in Jobs : WakePostDelay(j)
  \/ Tick

Spec == Init /\ [][Next]_vars

BatchDone == \A j \in Jobs : pc[j] = "done"

\* ------------------------------------------------------------------------
\* Claims about a batchScrape run
\* ------------------------------------------------------------------------

\* C1: every scrapeUrl call that has returned produced exactly one outcome,
\* a ScrapedContent or a ScrapeError, never both, never neither, and no
\* exception left scrapeUrl.
C1_ExactlyOneOutcome ==
  \A j \in Jobs :
    /\ outcome[j] # Thrown
    /\ (outcome[j] # Pending) => (isScrapedContent(outcome[j]) # isScrapeError(outcome[j]))
    /\ (outcome[j] # Pending) <=> (pc[j] \in {"postDelay", "done"})

\* a run in which one job returned content and another one was turned into
\* a ScrapeError by the outer catch
C1_Witness ==
  \E j, k \in Jobs :
    /\ isScrapedContent(outcome[j])
    /\ outcome[k] = ScrapeError(urls[k], "fetch failed")

\* number of positions of a sequence that hold a given locator
Occurrences(seq, u) == Cardinality({i \in 1..Len(seq) : seq[i] = u})

\* C2: when batchScrape returns, results holds exactly one outcome per
\* locator occurrence, successes and failures together, and no job was
\* rejected, whichever jobs failed and however the jobs interleaved.
C2_OneOutcomePerLocator ==
  BatchDone =>
    /\ Len(results) = Len(urls)
    /\ \A u \in Locators :
         Occurrences([i \in 1..Len(results) |-> results[i].url], u) = Occurrences(urls, u)
    /\ \A j \in Jobs : outcome[j] # Thrown /\ outcome[j] # Pending

\* a finished batch of at least two locators with a failure and a success
C2_Witness ==
  /\ BatchDone
  /\ Len(urls) >= 2
  /\ \E i, k \in 1..Len(results) :
       isScrapeError(results[i]) /\ isScrapedContent(results[k])

\* C3: checkRateLimit fails open.  A check made while the limiter is not
\* configured, or whose limit call threw, returns success = TRUE, and the job
\* is not turned into a rate-limit failure.
C3_FailOpen ==
  \A j \in Jobs :
    rlCheck[j].via \in {"unconfigured", "threw"} =>
      /\ rlCheck[j].success
      /\ outcome[j].error # "Rate limit exceeded"

\* the limit call threw for a job that went on to return content
C3_Witness ==
  \E j \in Jobs : rlCheck[j].via = "threw" /\ isScrapedContent(outcome[j])

\* C5: every network request is bounded by the 30 s timeout: no job is still
\* waiting for a response, headers or body, more than 30 s after the request
\* started.
C5_FetchBounded ==
  \A j \in Jobs :
    pc[j] \in {"fetch", "body"} => now - reqStart[j] <= TimeoutTicks

\* the extractor the dispatch rule of the interface description selects
expectedExtractor(url) ==
  IF isRedditUrl(url) THEN "reddit"
  ELSE IF isRssFeedUrl(url) THEN "feed"
  ELSE "html"

\* C6: a well-formed URL is dispatched by its shape: Reddit host to the
\* Reddit extractor, feed-shaped URL to the feed extractor, any other URL to
\* the HTML extractor.
C6_DispatchByShape ==
  \A j \in Jobs :
    extractor[j] # "none" => extractor[j] = expectedExtractor(urls[j])

\* body invariant of NormalizedContent
BodyInvariant(t) ==
  /\ t.len >= MinContentLength
  /\ t.len <= MaxContentLength
  /\ t.words >= MinWords
  /\ t.letters * AlphaRatioDen >= AlphaRatioNum * (t.len - t.ws)

\* C7: every ScrapedContent outcome has a body of 100 to 50,000 characters,
\* at least 10 words and at least 30% letters.
C7_ContentBodyInvariant ==
  \A i \in 1..Len(results) :
    isScrapedContent(results[i]) => BodyInvariant(results[i].body)

\* ------------------------------------------------------------------------
\* Specification of a run that audits the rate limiter: page URLs only, the
\* limiter configured, the run starting anywhere inside a window, and remote
\* hosts that answer every request with a valid page
\* ------------------------------------------------------------------------
RateLimitBaseBatches ==
  {<<urlHtml, urlHtmlWww, urlHtml, urlHtmlWww>>,
   <<urlHtmlWww, urlXml, urlHtml, urlXml>>}

RateLimitBatches == {SubSeq(b, 1, n) : b \in RateLimitBaseBatches, n \in 1..MaxBatch}

InitRateLimit ==
  /\ IdleExt
  /\ IdleValidate
  /\ IdleDuplicate
  /\ urls \in RateLimitBatches
  /\ concurrency \in 1..MaxConcurrency
  /\ configured = TRUE
  /\ t0 \in 0..(WindowTicks - 1)
  /\ now = t0
  /\ audit = TRUE
  /\ \E busy \in BOOLEAN : InitStore(busy, t0)
  /\ InitJobs

NextRateLimit ==
  \/ \E j \in Jobs : StartJob(j)
  \/ \E j \in Jobs, storeUp \in BOOLEAN : LimitReturn(j, storeUp)
  \/ \E j \in Jobs : WakePreDelay(j)
  \/ \E j \in Jobs : FetchHeaders(j)
  \/ \E j \in Jobs : PageBody(j, tOk)
  \/ \E j \in Jobs : WakePostDelay(j)
  \/ Tick

SpecRateLimit == InitRateLimit /\ [][NextRateLimit]_vars

RECURSIVE SumLog(_, _, _)
\* allowed checks of key d in the ticks lo..hi
SumLog(d, lo, hi) ==
  IF hi < lo THEN 0 ELSE rlLog[d][hi] + SumLog(d, lo, hi - 1)

Max(a, b) == IF a > b THEN a ELSE b

\* allowed checks of key d in the trailing window (now - 60 s, now]
AllowedInTrailingWindow(d) == SumLog(d, Max(0, now - WindowTicks + 1), now)

\* allowed checks of key d in the clock-aligned window b
AllowedInBucket(d, b) ==
  SumLog(d, b * WindowTicks, Min(MaxNow, (b + 1) * WindowTicks - 1))

\* a check the store denied turned its job into a rate-limit failure
DeniedJobsFail ==
  \A j \in Jobs :
    (rlCheck[j].via = "store" /\ ~rlCheck[j].success) =>
      outcome[j] = ScrapeError(urls[j], "Rate limit exceeded")

IdleBatch ==
  /\ urls = <<>>
  /\ concurrency = 1
  /\ configured = FALSE
  /\ t0 = 0
  /\ now = 0
  /\ audit = FALSE
  /\ InitStore(FALSE, 0)
  /\ InitJobs

batchVars == <<urls, concurrency, configured, t0, audit, now, rlVars, jobVars>>

ValidateInputs ==
  {t \in [len : {0, 99, 100, 101, 50000, 50001},
          words : {0, 1, 9, 10, 11},
          letters : {0, 17, 18, 19, 26, 27, 28, 90},
          ws : {0, 9, 10, 20}] : WellFormedText(t)}

InitValidate ==
  /\ IdleBatch
  /\ IdleExt
  /\ IdleDuplicate
  /\ vText \in ValidateInputs
  /\ vResult = NoValidation

\* validateContent(content) is called and returns
Validate ==
  /\ vResult = NoValidation
  /\ vResult' = validateContent(vText)
  /\ UNCHANGED <<vText, batchVars, dupVars, extVars>>

NextValidate == Validate

SpecValidate == InitValidate /\ [][NextValidate]_vars

\* the rejection rule of the validation gate: length below 100 or above
\* 50,000, fewer than 10 words, or letters / non-whitespace below 0.30
GateRejects(t) ==
  \/ t.len < MinContentLength
  \/ t.len > MaxContentLength
  \/ t.words < MinWords
  \/ t.letters * AlphaRatioDen < AlphaRatioNum * (t.len - t.ws)

\* C8: validateContent rejects a text exactly when the gate's rule rejects
\* it, and a text shorter than 100 characters is rejected with a reason that
\* cites its character count.
C8_RejectsExactly ==
  vResult # NoValidation =>
    /\ (~vResult.isValid) <=> GateRejects(vText)
    /\ (vText.len < MinContentLength) =>
         (vResult.reason = "too short" /\ vResult.count = vText.len)

\* ------------------------------------------------------------------------
\* Duplicate filter: titles, similarity, isDuplicateTopic
\* ------------------------------------------------------------------------
\* A string is a sequence of symbols: the whitespace symbol " " and letter
\* groups, some of which hold upper-case letters.
MaxStored == 1

LookbackDays == 30
SimilarityThresholdNum == 4
SimilarityThresholdDen == 5

titleStored ==
  <<"AI", " ", "coding", " ", "assistants", " ", "are", " ", "booming">>
titleBoomingNow ==
  <<"AI", " ", "coding", " ", "assistants", " ", "booming", " ", "right",
    " ", "now">>
titleEarnings == <<"Quarterly", " ", "earnings", " ", "beat", " ", "expectations">>
titleFourOfFive == <<"AI", " ", "coding", " ", "assistants", " ", "booming">>
titlePadded ==
  <<" ", "ai", " ", "Coding", " ", "assistants", " ", "are", " ", "booming", " ">>
titleWideSpace ==
  <<"ai", " ", " ", "coding", " ", "assistants", " ", "are", " ", "booming">>
titleEmpty == <<>>
titleBlank == <<" ">>

CandidateTitles ==
  {titleBoomingNow, titleEarnings, titleFourOfFive, titlePadded,
   titleWideSpace, titleEmpty, titleBlank}
StoredTitles == {titleStored, titleEmpty, titleBlank}
Tenants == {"u1", "u2"}

lowerSymbol(c) ==
  CASE c = "AI" -> "ai"
    [] c = "Coding" -> "coding"
    [] c = "Quarterly" -> "quarterly"
    [] OTHER -> c

toLowerCase(s) == [i \in 1..Len(s) |-> lowerSymbol(s[i])]

RECURSIVE trimStart(_)
trimStart(s) ==
  IF s # <<>> /\ Head(s) = " " THEN trimStart(Tail(s)) ELSE s

RECURSIVE trimEnd(_)
trimEnd(s) ==
  IF s # <<>> /\ s[Len(s)] = " " THEN trimEnd(SubSeq(s, 1, Len(s) - 1)) ELSE s

trim(s) == trimEnd(trimStart(s))

\* s.split(/\s+/): the pieces between maximal runs of whitespace; the empty
\* string splits into one empty piece
RECURSIVE splitWhitespace(_, _, _)
splitWhitespace(s, piece, pieces) ==
  IF s = <<>> THEN Append(pieces, piece)
  ELSE IF Head(s) = " "
    THEN splitWhitespace(trimStart(s), <<>>, Append(pieces, piece))
    ELSE splitWhitespace(Tail(s), Append(piece, Head(s)), pieces)

\* empty pieces dropped from the word set
wordSet_nonEmptyPieces(str) ==
  LET pieces == splitWhitespace(trim(toLowerCase(str)), <<>>, <<>>)
  IN {pieces[i] : i \in {k \in 1..Len(pieces) : pieces[k] # <<>>}}

wordSet(str) ==
  LET pieces == splitWhitespace(trim(toLowerCase(str)), <<>>, <<>>)
  IN {pieces[i] : i \in 1..Len(pieces)}

\* intersection size over the smaller set's size instead of the union's
calculateSimilarity_overlap(str1, str2) ==
  LET words1 == wordSet(str1)
      words2 == wordSet(str2)
      intersection == {word \in words1 : word \in words2}
      union == words1 \cup words2
  IN IF Cardinality(union) = 0 THEN [num |-> 0, den |-> 1]
     ELSE [num |-> Cardinality(intersection),
           den |-> Min(Cardinality(words1), Cardinality(words2))]

\* the ratio intersection.size / union.size, kept as a fraction
calculateSimilarity(str1, str2) ==
  LET words1 == wordSet(str1)
      words2 == wordSet(str2)
      intersection == {word \in words1 : word \in words2}
      union == words1 \cup words2
  IN IF Cardinality(union) = 0 THEN [num |-> 0, den |-> 1]
     ELSE [num |-> Cardinality(intersection), den |-> Cardinality(union)]

\* similarity >= similarityThreshold, the threshold being 0.8 = 4/5
reachesThreshold(similarity) ==
  similarity.num * SimilarityThresholdDen >= SimilarityThresholdNum * similarity.den

\* A row of trending_topics: discovered_at and expires_at are kept relative
\* to the moment of the query, in days.
TopicRows ==
  [user_id : Tenants, title : StoredTitles, discoveredDaysAgo : {0, 30, 31},
   hasExpiry : {TRUE}, expiresInDays : {-1, 0, 1}]
  \cup
  [user_id : Tenants, title : StoredTitles, discoveredDaysAgo : {0, 30, 31},
   hasExpiry : {FALSE}, expiresInDays : {0}]

\* the query without its user_id filter
selectExistingTopics_anyTenant(store, userId) ==
  SelectSeq(store, LAMBDA row :
    /\ row.discoveredDaysAgo <= LookbackDays
    /\ (~row.hasExpiry \/ row.expiresInDays > 0))

\* .eq("user_id", userId).gte("discovered_at", thirtyDaysAgo)
\* .or("expires_at.is.null,expires_at.gt.now()")
selectExistingTopics(store, userId) ==
  SelectSeq(store, LAMBDA row :
    /\ row.user_id = userId
    /\ row.discoveredDaysAgo <= LookbackDays
    /\ (~row.hasExpiry \/ row.expiresInDays > 0))

\* the loop over existingTopics
RECURSIVE matchesExisting(_, _)
matchesExisting(title, existingTopics) ==
  IF existingTopics = <<>> THEN FALSE
  ELSE LET existing == Head(existingTopics)
       IN IF existing.title = <<>>
            THEN matchesExisting(title, Tail(existingTopics))
          ELSE IF trim(toLowerCase(title)) = trim(toLowerCase(existing.title))
            THEN TRUE
          ELSE IF reachesThreshold(calculateSimilarity(title, existing.title))
            THEN TRUE
          ELSE matchesExisting(title, Tail(existingTopics))

isDuplicateTopic(title, userId, store, error) ==
  IF error THEN FALSE
  ELSE LET existingTopics == selectExistingTopics(store, userId)
       IN IF Len(existingTopics) = 0 THEN FALSE
          ELSE matchesExisting(title, existingTopics)

InitDuplicate ==
  /\ IdleBatch
  /\ IdleExt
  /\ IdleValidate
  /\ topicStore \in UNION {[1..n -> TopicRows] : n \in 0..MaxStored}
  /\ candidate \in CandidateTitles
  /\ tenant \in Tenants
  /\ queryFails \in BOOLEAN
  /\ dupResult = NoDecision

\* isDuplicateTopic(topic, userId, supabase) is called and returns
IsDuplicateTopic ==
  /\ ~dupResult.called
  /\ dupResult' = [called |-> TRUE,
                   value |-> isDuplicateTopic(candidate, tenant, topicStore, queryFails)]
  /\ UNCHANGED <<topicStore, candidate, tenant, queryFails, batchVars, validateVars, extVars>>

NextDuplicate == IsDuplicateTopic

SpecDuplicate == InitDuplicate /\ [][NextDuplicate]_vars

\* a stored row the claims count: same tenant, discovered within the last
\* 30 days, expiry absent or in the future
Eligible(row) ==
  /\ row.user_id = tenant
  /\ row.discoveredDaysAgo <= 30
  /\ (row.hasExpiry => row.expiresInDays > 0)

EligibleRows == {topicStore[i] : i \in {k \in 1..Len(topicStore) : Eligible(topicStore[k])}}

\* the words of a title: its maximal whitespace-free pieces, lower-cased
TitleWords(s) ==
  {w \in wordSet(s) : w # <<>>}

\* Jaccard similarity of the two titles' word sets is at least 0.8
JaccardAtLeastThreshold(a, b) ==
  LET A == TitleWords(a)
      B == TitleWords(b)
  IN /\ A \cup B # {}
     /\ 10 * Cardinality(A \cap B) >= 8 * Cardinality(A \cup B)

SameTitle(a, b) == trim(toLowerCase(a)) = trim(toLowerCase(b))

\* the tenant's eligible stored topics are all titled
\* "AI coding assistants are booming", and there is at least one
OnlyStoredExample ==
  /\ ~queryFails
  /\ EligibleRows # {}
  /\ \A row \in EligibleRows : row.title = titleStored

\* C9 (as stated): with "AI coding assistants are booming" stored for the
\* tenant, isDuplicateTopic returns true for "AI coding assistants booming
\* right now" and false for "Quarterly earnings beat expectations".
C9_ExampleIsDuplicate ==
  (dupResult.called /\ OnlyStoredExample) =>
    /\ (candidate = titleBoomingNow) => dupResult.value
    /\ (candidate = titleEarnings) => ~dupResult.value

\* C9 (amended): with "AI coding assistants are booming" the tenant's only
\* eligible stored title, isDuplicateTopic returns false for both "AI coding
\* assistants booming right now" (4 common words of 7, below 0.8) and
\* "Quarterly earnings beat expectations" (no common word).
C9_ExampleIsNotDuplicate ==
  /\ calculateSimilarity(titleBoomingNow, titleStored) = [num |-> 4, den |-> 7]
  /\ calculateSimilarity(titleEarnings, titleStored) = [num |-> 0, den |-> 9]
  /\ (dupResult.called /\ OnlyStoredExample
        /\ candidate \in {titleBoomingNow, titleEarnings}) => ~dupResult.value

\* the spec's example has been run: stored title present, candidate
\* "AI coding assistants booming right now", answer false
C9_Witness ==
  /\ dupResult.called
  /\ OnlyStoredExample
  /\ candidate = titleBoomingNow
  /\ ~dupResult.value

coreVars == <<batchVars, validateVars, dupVars, lateVars>>
IdleCore == IdleBatch /\ IdleValidate /\ IdleDuplicate /\ IdleLate

titleOneWord == <<"AI">>
titleRepeatedWord == <<"ai", " ", "AI", " ", "coding">>

SimilarityInputs ==
  {titleStored, titleBoomingNow, titleEarnings, titleFourOfFive, titlePadded,
   titleWideSpace, titleEmpty, titleBlank, titleOneWord, titleRepeatedWord}

InitSimilarity ==
  /\ IdleCore
  /\ IdleHash /\ IdleScore /\ IdleExtract /\ IdleTrigger
  /\ title1 \in SimilarityInputs
  /\ title2 \in SimilarityInputs
  /\ simResult = NoSimilarity

\* calculateSimilarity(str1, str2) is called and returns
CalculateSimilarity ==
  /\ ~simResult.called
  /\ simResult' = [called |-> TRUE,
                   num |-> calculateSimilarity(title1, title2).num,
                   den |-> calculateSimilarity(title1, title2).den]
  /\ UNCHANGED <<title1, title2, coreVars, hashVars, scoreVars, extractVars, triggerVars>>

NextSimilarity == CalculateSimilarity

SpecSimilarity == InitSimilarity /\ [][NextSimilarity]_vars

\* C11: calculateSimilarity returns 0 for every pair of titles that hold no
\* word at all (empty or whitespace-only titles, the empty-union pairs).
C11_EmptyUnionIsZero ==
  (simResult.called /\ TitleWords(title1) \cup TitleWords(title2) = {}) =>
    simResult.num = 0

\* C12: calculateSimilarity is symmetric, gives 1 for a non-empty string
\* compared with itself, and always lies between 0 and 1.
C12_SymmetricReflexiveBounded ==
  simResult.called =>
    /\ simResult.num * calculateSimilarity(title2, title1).den
         = calculateSimilarity(title2, title1).num * simResult.den
    /\ (title1 = title2 /\ title1 # <<>>) => simResult.num = simResult.den
    /\ simResult.den > 0
    /\ 0 <= simResult.num
    /\ simResult.num <= simResult.den

\* a non-empty title that holds only whitespace was compared with itself
\* and scored 1
C12_Witness ==
  /\ simResult.called
  /\ title1 = titleBlank
  /\ title2 = titleBlank
  /\ simResult.num = simResult.den

\* ------------------------------------------------------------------------
\* Specification of generateContentHash as a function of its arguments
\* ------------------------------------------------------------------------
ExcerptPrefixLength == 500

\* the string made of n copies of the symbol c
Repeat(c, n) == [i \in 1..n |-> c]

\* s.substring(0, end)
substring(s, end) == SubSeq(s, 1, Min(end, Len(s)))

\* an optional string argument: absent, or present with a value
Absent == [defined |-> FALSE, value |-> <<>>]
Present(s) == [defined |-> TRUE, value |-> s]

\* url || ""
orEmpty(url) == IF url.defined /\ url.value # <<>> THEN url.value ELSE <<>>

\* crypto.createHash("sha256").update(content).digest("hex"): the digest is
\* taken as collision-free, one digest per content
sha256(content) == <<"sha256">> \o content

\* the locator left out of the hashed content
generateContentHash_noLocator(title, excerpt, url) ==
  sha256(title \o <<"|">> \o substring(excerpt, ExcerptPrefixLength))

generateContentHash(title, excerpt, url) ==
  sha256(title \o <<"|">> \o substring(excerpt, ExcerptPrefixLength) \o <<"|">>
           \o orEmpty(url))

HashTitles == {<<>>, <<"Launch">>, <<"Launch", "|", "day">>}
HashExcerpts ==
  {<<>>, <<"day">>, Repeat("e", ExcerptPrefixLength),
   Repeat("e", ExcerptPrefixLength) \o <<"a">>,
   Repeat("e", ExcerptPrefixLength) \o <<"b">>}
HashLocators ==
  {Absent, Present(<<>>), Present(<<"https://", "example.com">>),
   Present(<<"https://", "other.org">>)}
HashInputs == [title : HashTitles, excerpt : HashExcerpts, url : HashLocators]

InitHash ==
  /\ IdleCore
  /\ IdleSimilarity /\ IdleScore /\ IdleExtract /\ IdleTrigger
  /\ hashArgs \in [1..2 -> HashInputs]
  /\ hashes = <<>>

\* generateContentHash(title, excerpt, url) is called and returns
GenerateContentHash ==
  /\ Len(hashes) < Len(hashArgs)
  /\ LET a == hashArgs[Len(hashes) + 1]
     IN hashes' = Append(hashes, generateContentHash(a.title, a.excerpt, a.url))
  /\ UNCHANGED <<hashArgs, coreVars, simVars, scoreVars, extractVars, triggerVars>>

NextHash == GenerateContentHash

SpecHash == InitHash /\ [][NextHash]_vars

\* number of the three inputs in which two calls differ
InputsChanged(a, b) ==
  Cardinality({f \in {"title", "excerpt", "url"} : a[f] # b[f]})

\* C13 (as stated): identical inputs give the identical hash, and two calls
\* that differ in exactly one of title, excerpt and locator give different
\* hashes.
C13_HashSeparatesInputs ==
  Len(hashes) = 2 =>
    /\ (hashArgs[1] = hashArgs[2]) => (hashes[1] = hashes[2])
    /\ (InputsChanged(hashArgs[1], hashArgs[2]) = 1) => (hashes[1] # hashes[2])

\* C13 (amended): identical inputs give the identical hash; with the other
\* two inputs held fixed, a different title, a different locator (an absent
\* locator counting as the empty one) or a difference within the first 500
\* characters of the excerpt changes the hash, and excerpts that differ only
\* past their 500th character give the same hash.
C13_HashSeparatesHashedInputs ==
  Len(hashes) = 2 =>
    LET a == hashArgs[1]
        b == hashArgs[2]
        sameTitle == a.title = b.title
        samePrefix == SubSeq(a.excerpt, 1, Min(500, Len(a.excerpt)))
                        = SubSeq(b.excerpt, 1, Min(500, Len(b.excerpt)))
        sameLocator == (IF a.url.defined THEN a.url.value ELSE <<>>)
                         = (IF b.url.defined THEN b.url.value ELSE <<>>)
    IN /\ (a = b) => (hashes[1] = hashes[2])
       /\ (~sameTitle /\ samePrefix /\ sameLocator) => (hashes[1] # hashes[2])
       /\ (sameTitle /\ ~samePrefix /\ sameLocator) => (hashes[1] # hashes[2])
       /\ (sameTitle /\ samePrefix /\ ~sameLocator) => (hashes[1] # hashes[2])
       /\ (sameTitle /\ samePrefix /\ sameLocator) => (hashes[1] = hashes[2])

\* two excerpts of 501 characters that differ in their last character were
\* hashed with the same title and locator, and the hashes are equal
C13_Witness ==
  /\ Len(hashes) = 2
  /\ hashArgs[1].title = hashArgs[2].title
  /\ hashArgs[1].url = hashArgs[2].url
  /\ hashArgs[1].excerpt = Repeat("e", 500) \o <<"a">>
  /\ hashArgs[2].excerpt = Repeat("e", 500) \o <<"b">>
  /\ hashes[1] = hashes[2]

\* ------------------------------------------------------------------------
\* triggerScrape and processNewsletterEmails (services/custom-sources.ts)
\* ------------------------------------------------------------------------
MaxRuns == 2
MaxTopics == 2

HashWindowDays == 7

\* runs are observed up to the first day on which a stored hash is too old
MaxDay == HashWindowDays + 1

Hashes == {"h1", "h2"}

\* custom_sources and newsletter_sources: every source belongs to tenant u1;
\* s3 is inactive; n1 is a newsletter source
CustomSources == {"s1", "s2", "s3"}
NewsletterSources == {"n1"}
sourceOwner(s) == "u1"
is_active(s) == s # "s3"

\* rows that earlier activity left in trending_topics: one of another
\* tenant, one of another source, one discovered 8 days ago, one 7 days ago
SeedRows ==
  {[user_id |-> "u2", source_id |-> "s1", content_hash |-> "h1", discovered |-> 0],
   [user_id |-> "u1", source_id |-> "s2", content_hash |-> "h1", discovered |-> 0],
   [user_id |-> "u1", source_id |-> "s1", content_hash |-> "h1", discovered |-> -8],
   [user_id |-> "u1", source_id |-> "s1", content_hash |-> "h2", discovered |-> -7]}

\* the query without its source filter
isContentHashDuplicate_anySource(contentHash, sourceId, userId, rows, day, error) ==
  IF error THEN FALSE
  ELSE \E topic \in rows :
         /\ topic.user_id = userId
         /\ topic.discovered >= day - HashWindowDays
         /\ topic.content_hash = contentHash

\* isContentHashDuplicate: rows of the tenant and the source (source_id or
\* newsletter_source_id) discovered on or after sevenDaysAgo, compared by
\* metadata.content_hash; a query error answers false
isContentHashDuplicate(contentHash, sourceId, userId, rows, day, error) ==
  IF error THEN FALSE
  ELSE \E topic \in rows :
         /\ topic.user_id = userId
         /\ topic.source_id = sourceId
         /\ topic.discovered >= day - HashWindowDays
         /\ topic.content_hash = contentHash

\* history: the hash h is held by a row of this tenant and this source that
\* was discovered at most 7 days ago
RecordedWithinWindow(h, sourceId, userId) ==
  \E row \in trendingTopics :
    /\ row.content_hash = h
    /\ row.user_id = userId
    /\ row.source_id = sourceId
    /\ today - row.discovered <= 7

RunIdle == run.pc \in {"idle", "done"}

\* a run begins: everything the previous run left in the record is dropped
NewRun(kind, userId, sourceId) ==
  [NoRun EXCEPT !.kind = kind, !.userId = userId, !.sourceId = sourceId]

\* throw new ApiError(code, ...)
Throw(r, code) == [r EXCEPT !.pc = "done", !.outcome = "thrown", !.code = code]

\* return { ...data, topics_found, scrape_successful: true, <marker>: true }
Return(r, found, marker) ==
  [r EXCEPT !.pc = "done", !.outcome = "returned", !.topics_found = found,
            !.marker = marker]

\* .update({ last_scraped_at }) on the source of the run
UpdateLastScraped(ok) ==
  lastScraped' = IF ok THEN [lastScraped EXCEPT ![run.sourceId] = runs] ELSE lastScraped

\* history: a run that returns after handling content with hash h is
\* remembered as having processed it
Remember ==
  processed' = processed \cup
    {[user_id |-> run.userId, source_id |-> run.sourceId,
      content_hash |-> run.contentHash, day |-> today, run |-> runs]}

\* triggerScrape(sourceId, userId) up to scrapeUrl: getCustomSourceById
\* (ownership), then the is_active test
StartTriggerScrape(userId, sourceId) ==
  /\ RunIdle
  /\ runs < MaxRuns
  /\ runs' = runs + 1
  /\ run' = IF sourceOwner(sourceId) # userId
              THEN Throw(NewRun("custom", userId, sourceId), "NOT_FOUND")
            ELSE IF ~is_active(sourceId)
              THEN Throw(NewRun("custom", userId, sourceId), "SOURCE_INACTIVE")
            ELSE [NewRun("custom", userId, sourceId) EXCEPT !.pc = "scrape", !.scraped = TRUE]
  /\ UNCHANGED <<trendingTopics, lastScraped, processed, today>>

\* scrapeUrl returned a ScrapeError: last_scraped_at is written (the result
\* of the write is not looked at), then SCRAPE_FAILED is thrown
ScrapeFailed(updateOk) ==
  /\ run.pc = "scrape"
  /\ run.kind = "custom"
  /\ UpdateLastScraped(updateOk)
  /\ run' = Throw([run EXCEPT !.scrapeFailed = TRUE, !.updateIssued = TRUE], "SCRAPE_FAILED")
  /\ UNCHANGED <<trendingTopics, processed, runs, today>>

\* scrapeUrl returned content whose hash is h: preferences are read, the
\* hash is computed and isContentHashDuplicate is called
ScrapeSucceeded(h) ==
  /\ run.pc = "scrape"
  /\ run.kind = "custom"
  /\ run' = [run EXCEPT !.pc = "hashCheck", !.contentHash = h,
               !.recorded = RecordedWithinWindow(h, run.sourceId, run.userId)]
  /\ UNCHANGED <<trendingTopics, lastScraped, processed, runs, today>>

\* isContentHashDuplicate returned: short-circuit, or extractTopicsFromContent
\* is invoked
HashCheckReturns(error) ==
  /\ run.pc = "hashCheck"
  /\ run' = IF isContentHashDuplicate(run.contentHash, run.sourceId, run.userId,
                                      trendingTopics, today, error)
              THEN [run EXCEPT !.pc = "updateSkip", !.lookupOk = ~error, !.updateIssued = TRUE]
              ELSE [run EXCEPT !.pc = "extract", !.lookupOk = ~error, !.calls = @ + 1]
  /\ UNCHANGED <<trendingTopics, lastScraped, processed, runs, today>>

\* the last_scraped_at write of an early exit returned: content unchanged,
\* no topics extracted, or every topic a duplicate
EarlyUpdateReturns(ok) ==
  /\ run.pc \in {"updateSkip", "updateNone", "updateDup"}
  /\ UpdateLastScraped(ok)
  /\ run' = IF ~ok THEN Throw(run, "UPDATE_ERROR")
            ELSE Return(run, 0, CASE run.pc = "updateSkip" -> "skipped_duplicate"
                                  [] run.pc = "updateDup" -> "skipped_duplicates"
                                  [] OTHER -> "none")
  /\ IF ok /\ run.pc # "updateSkip" THEN Remember ELSE processed' = processed
  /\ UNCHANGED <<trendingTopics, runs, today>>

\* extractTopicsFromContent returned n topics (0 when the Generation Service
\* failed or answered nothing usable)
ExtractReturns(n) ==
  /\ run.pc = "extract"
  /\ run' = IF n = 0
              THEN [run EXCEPT !.pc = "updateNone", !.updateIssued = TRUE]
              ELSE [run EXCEPT !.pc = "filter", !.extractedCount = n]
  /\ UNCHANGED <<trendingTopics, lastScraped, processed, runs, today>>

\* filterDuplicateTopics kept k of the extracted topics
FilterReturns(k) ==
  /\ run.pc = "filter"
  /\ k <= run.extractedCount
  /\ run' = IF k = 0
              THEN [run EXCEPT !.pc = "updateDup", !.updateIssued = TRUE]
              ELSE [run EXCEPT !.pc = "insert", !.uniqueCount = k]
  /\ UNCHANGED <<trendingTopics, lastScraped, processed, runs, today>>

\* the row every inserted topic of the run carries, as far as the hash gate
\* can tell them apart
InsertedRow ==
  [user_id |-> run.userId, source_id |-> run.sourceId,
   content_hash |-> run.contentHash, discovered |-> today]

\* the insert into trending_topics returned
InsertReturns(ok) ==
  /\ run.pc = "insert"
  /\ trendingTopics' = IF ok THEN trendingTopics \cup {InsertedRow} ELSE trendingTopics
  /\ run' = IF ok
              THEN [run EXCEPT !.pc = "updateFinal", !.inserted = run.uniqueCount,
                               !.updateIssued = TRUE]
              ELSE Throw(run, "INSERT_ERROR")
  /\ UNCHANGED <<lastScraped, processed, runs, today>>

\* the final last_scraped_at write returned; its failure is only logged
FinalUpdateReturns(ok) ==
  /\ run.pc = "updateFinal"
  /\ UpdateLastScraped(ok)
  /\ run' = Return(run, run.inserted, "none")
  /\ Remember
  /\ UNCHANGED <<trendingTopics, runs, today>>

\* processNewsletterEmails(userId, newsletterSourceId) up to
\* fetchNewsletterEmails: the source is looked up by id and tenant
StartNewsletter(userId, sourceId) ==
  /\ RunIdle
  /\ runs < MaxRuns
  /\ runs' = runs + 1
  /\ run' = IF sourceOwner(sourceId) # userId
              THEN Throw(NewRun("newsletter", userId, sourceId), "NOT_FOUND")
              ELSE [NewRun("newsletter", userId, sourceId) EXCEPT !.pc = "emails"]
  /\ UNCHANGED <<trendingTopics, lastScraped, processed, today>>

\* fetchNewsletterEmails returned no email: last_scraped_at is written and
\* the run returns
NoEmails(updateOk) ==
  /\ run.pc = "emails"
  /\ UpdateLastScraped(updateOk)
  /\ run' = Return([run EXCEPT !.updateIssued = TRUE], 0, "none")
  /\ UNCHANGED <<trendingTopics, processed, runs, today>>

\* fetchNewsletterEmails returned emails, the first of which hashes to h:
\* they are parsed, their links scraped, and extractTopicsFromContent is
\* invoked; no hash lookup is made
EmailsFetched(h) ==
  /\ run.pc = "emails"
  /\ run' = [run EXCEPT !.pc = "nlExtract", !.contentHash = h, !.calls = @ + 1,
               !.recorded = RecordedWithinWindow(h, run.sourceId, run.userId)]
  /\ UNCHANGED <<trendingTopics, lastScraped, processed, runs, today>>

\* extractTopicsFromContent returned n topics
NewsletterExtractReturns(n, updateOk) ==
  /\ run.pc = "nlExtract"
  /\ IF n = 0
       THEN /\ UpdateLastScraped(updateOk)
            /\ run' = Return([run EXCEPT !.updateIssued = TRUE], 0, "none")
            /\ Remember
       ELSE /\ run' = [run EXCEPT !.pc = "nlFilter", !.extractedCount = n]
            /\ UNCHANGED <<lastScraped, processed>>
  /\ UNCHANGED <<trendingTopics, runs, today>>

\* filterDuplicateTopics kept k of the extracted topics
NewsletterFilterReturns(k, updateOk) ==
  /\ run.pc = "nlFilter"
  /\ k <= run.extractedCount
  /\ IF k = 0
       THEN /\ UpdateLastScraped(updateOk)
            /\ run' = Return([run EXCEPT !.updateIssued = TRUE], 0, "skipped_duplicates")
            /\ Remember
       ELSE /\ run' = [run EXCEPT !.pc = "nlInsert", !.uniqueCount = k]
            /\ UNCHANGED <<lastScraped, processed>>
  /\ UNCHANGED <<trendingTopics, runs, today>>

\* the insert into trending_topics returned: INSERT_ERROR, or
\* last_scraped_at is written and the run returns
NewsletterInsertReturns(ok, updateOk) ==
  /\ run.pc = "nlInsert"
  /\ IF ok
       THEN /\ trendingTopics' = trendingTopics \cup {InsertedRow}
            /\ UpdateLastScraped(updateOk)
            /\ run' = Return([run EXCEPT !.inserted = run.uniqueCount, !.updateIssued = TRUE],
                             run.uniqueCount, "none")
            /\ Remember
       ELSE /\ run' = Throw(run, "INSERT_ERROR")
            /\ UNCHANGED <<trendingTopics, lastScraped, processed>>
  /\ UNCHANGED <<runs, today>>

\* days go by between two runs
DaysPass(d) ==
  /\ RunIdle
  /\ 0 < runs
  /\ runs < MaxRuns
  /\ today + d <= MaxDay
  /\ today' = today + d
  /\ UNCHANGED <<trendingTopics, lastScraped, run, processed, runs>>

InitTrigger ==
  /\ IdleCore
  /\ IdleSimilarity /\ IdleHash /\ IdleScore /\ IdleExtract
  /\ trendingTopics \in {{}, SeedRows}
  /\ lastScraped = [s \in Sources |-> 0]
  /\ run = NoRun
  /\ processed = {}
  /\ runs = 0
  /\ today = 0

otherThanTrigger == <<coreVars, simVars, hashVars, scoreVars, extractVars>>

NextTrigger ==
  \/ \E u \in Tenants, s \in CustomSources : StartTriggerScrape(u, s) /\ UNCHANGED otherThanTrigger
  \/ \E ok \in BOOLEAN : ScrapeFailed(ok) /\ UNCHANGED otherThanTrigger
  \/ \E h \in Hashes : ScrapeSucceeded(h) /\ UNCHANGED otherThanTrigger
  \/ \E error \in BOOLEAN : HashCheckReturns(error) /\ UNCHANGED otherThanTrigger
  \/ \E ok \in BOOLEAN : EarlyUpdateReturns(ok) /\ UNCHANGED otherThanTrigger
  \/ \E n \in 0..MaxTopics : ExtractReturns(n) /\ UNCHANGED otherThanTrigger
  \/ \E k \in 0..MaxTopics : FilterReturns(k) /\ UNCHANGED otherThanTrigger
  \/ \E ok \in BOOLEAN : InsertReturns(ok) /\ UNCHANGED otherThanTrigger
  \/ \E ok \in BOOLEAN : FinalUpdateReturns(ok) /\ UNCHANGED otherThanTrigger
  \/ \E u \in Tenants, s \in NewsletterSources : StartNewsletter(u, s) /\ UNCHANGED otherThanTrigger
  \/ \E ok \in BOOLEAN : NoEmails(ok) /\ UNCHANGED otherThanTrigger
  \/ \E h \in Hashes : EmailsFetched(h) /\ UNCHANGED otherThanTrigger
  \/ \E n \in 0..MaxTopics, ok \in BOOLEAN : NewsletterExtractReturns(n, ok) /\ UNCHANGED otherThanTrigger
  \/ \E k \in 0..MaxTopics, ok \in BOOLEAN : NewsletterFilterReturns(k, ok) /\ UNCHANGED otherThanTrigger
  \/ \E ok, updateOk \in BOOLEAN : NewsletterInsertReturns(ok, updateOk) /\ UNCHANGED otherThanTrigger
  \/ \E d \in {HashWindowDays, HashWindowDays + 1} : DaysPass(d) /\ UNCHANGED otherThanTrigger

SpecTrigger == InitTrigger /\ [][NextTrigger]_vars

\* the custom-source run in progress has been through the hash gate
PastHashGate ==
  /\ run.kind = "custom"
  /\ run.contentHash # "none"
  /\ run.pc \notin {"scrape", "hashCheck"}

C15_UnchangedNeverReprocessed ==
  \A p \in processed :
    (/\ p.run < runs
     /\ p.user_id = run.userId
     /\ p.source_id = run.sourceId
     /\ p.content_hash = run.contentHash
     /\ today - p.day <= 7) => run.calls = 0

\* C16: every finished triggerScrape run that reached the scrape step wrote
\* last_scraped_at, whatever its outcome.
C16_AttemptAlwaysTracked ==
  (run.kind = "custom" /\ run.pc = "done" /\ run.scraped) => run.updateIssued

\* C19: a triggerScrape run whose scrape yielded a Failure returns a result
\* instead of throwing to its caller.
C19_ScrapeFailureReturned ==
  (run.pc = "done" /\ run.scrapeFailed) => run.outcome = "returned"

\* ------------------------------------------------------------------------
\* extractTopicsFromContent (topic extractor) and generateWithClaude
\* ------------------------------------------------------------------------
MaxBatches == 2
MaxItems == 2

MinTrendingScore == 40
MaxTrendingScore == 100

\* trendingScore values are kept in tenths, so that 39.9 and 99.5 can be told
\* from 40 and 100
Tenths(n) == n * 10

\* Math.round of a non-negative number held in tenths
MathRound(t) == ((t + 5) \div 10) * 10

\* An item of the parsed JSON array: the typeof of each field the validation
\* looks at, the title when it is a string, the trendingScore when it is a
\* number; isNull is the JSON value null in place of an object.
ItemTitles == {titleStored, titlePadded, titleWideSpace, titleEarnings}
ItemScores == {Tenths(MinTrendingScore) - 1, Tenths(MinTrendingScore),
               Tenths(MaxTrendingScore) - 5, Tenths(MaxTrendingScore) + 1}

WellFormedItem(title, score) ==
  [isNull |-> FALSE, titleType |-> "string", title |-> title,
   descriptionType |-> "string", categoryType |-> "string",
   trendingScoreType |-> "number", trendingScore |-> score,
   relevanceType |-> "string"]

PlainItem == WellFormedItem(titleEarnings, Tenths(MaxTrendingScore) - 5)

MistypedItems ==
  {[PlainItem EXCEPT !.titleType = "number", !.title = <<>>],
   [PlainItem EXCEPT !.descriptionType = "undefined"],
   [PlainItem EXCEPT !.categoryType = "number"],
   [PlainItem EXCEPT !.trendingScoreType = "string"],
   [PlainItem EXCEPT !.relevanceType = "undefined"]}

NullItem == [PlainItem EXCEPT !.isNull = TRUE, !.title = <<>>]

Items ==
  {WellFormedItem(t, s) : t \in ItemTitles, s \in ItemScores}
    \cup MistypedItems \cup {NullItem}

\* What generateWithClaude does for one call: it throws (the API call
\* failed), or it returns a text which is empty, only whitespace, not JSON
\* ("prose"), a JSON value without any array in it ("object"), or a JSON array.
NoItems == <<>>
Generation(threw, form, items) == [threw |-> threw, form |-> form, items |-> items]
Generations ==
  {Generation(TRUE, "none", NoItems)}
    \cup {Generation(FALSE, f, NoItems) : f \in {"empty", "blank", "prose", "object"}}
    \cup {Generation(FALSE, "array", items) :
            items \in UNION {[1..n -> Items] : n \in 0..MaxItems}}

\* the scrapedContent argument: no ScrapedContent among the results, a first
\* part longer than maxChars (nothing is combined), or content that is combined
ContentKinds == {"noValidContent", "oversized", "combined"}

\* the test of parseTopicsFromResponse on one item
validTopicStructure_noUpperBound(item) ==
  /\ item.titleType = "string"
  /\ item.descriptionType = "string"
  /\ item.categoryType = "string"
  /\ item.trendingScoreType = "number"
  /\ item.relevanceType = "string"
  /\ item.trendingScore >= Tenths(MinTrendingScore)

validTopicStructure(item) ==
  /\ item.titleType = "string"
  /\ item.descriptionType = "string"
  /\ item.categoryType = "string"
  /\ item.trendingScoreType = "number"
  /\ item.relevanceType = "string"
  /\ item.trendingScore >= Tenths(MinTrendingScore)
  /\ item.trendingScore <= Tenths(MaxTrendingScore)

\* the ExtractedTopic pushed for a valid item
ExtractedTopic(item) ==
  [title |-> trim(item.title), trendingScore |-> MathRound(item.trendingScore)]

RECURSIVE validTopics(_)
validTopics(parsed) ==
  IF parsed = <<>> THEN <<>>
  ELSE IF validTopicStructure(Head(parsed))
    THEN <<ExtractedTopic(Head(parsed))>> \o validTopics(Tail(parsed))
    ELSE validTopics(Tail(parsed))

\* extractTopicsFromText: the fallback always returns the empty list
extractTopicsFromText(text) == <<>>

\* parseTopicsFromResponse: JSON.parse throws on a text that is not JSON, and
\* reading a field of a null item throws; both end in the fallback
parseTopicsFromResponse(response) ==
  IF response.form = "array"
    THEN IF \E i \in 1..Len(response.items) : response.items[i].isNull
           THEN extractTopicsFromText(response)
           ELSE validTopics(response.items)
  ELSE IF response.form = "object" THEN <<>>
  ELSE extractTopicsFromText(response)

\* similarity > 0.8
exceedsThreshold(similarity) ==
  similarity.num * SimilarityThresholdDen > SimilarityThresholdNum * similarity.den

\* deduplicateTopics: the loop over topics with its lists unique and seen;
\* calculateSimilarity of the topic extractor is the same code as the one of
\* the duplicate detector
RECURSIVE deduplicateFrom(_, _, _)
deduplicateFrom(topics, unique, seen) ==
  IF topics = <<>> THEN unique
  ELSE LET topic == Head(topics)
           normalizedTitle == trim(toLowerCase(topic.title))
           similar == {i \in 1..Len(unique) :
                         exceedsThreshold(calculateSimilarity(topic.title, unique[i].title))}
       IN IF normalizedTitle \in seen
            THEN deduplicateFrom(Tail(topics), unique, seen)
          ELSE IF similar # {}
            THEN LET index == CHOOSE i \in similar : \A j \in similar : i <= j
                 IN deduplicateFrom(Tail(topics),
                      IF topic.trendingScore > unique[index].trendingScore
                        THEN [unique EXCEPT ![index] = topic]
                        ELSE unique,
                      seen)
          ELSE deduplicateFrom(Tail(topics), Append(unique, topic),
                               seen \cup {normalizedTitle})

deduplicateTopics(topics) == deduplicateFrom(topics, <<>>, {})

Returned(topics) == [outcome |-> "returned", topics |-> topics]
Rejected == [outcome |-> "thrown", topics |-> <<>>]

\* the error of generateWithClaude leaves the function
extractTopicsFromContent_noCatch(scrapedContent, generation) ==
  IF scrapedContent = "noValidContent" THEN Returned(<<>>)
  ELSE IF scrapedContent = "oversized" THEN Returned(<<>>)
  ELSE IF generation.threw THEN Rejected
  ELSE IF generation.form \in {"empty", "blank"} THEN Returned(<<>>)
  ELSE Returned(deduplicateTopics(parseTopicsFromResponse(generation)))

\* extractTopicsFromContent: its whole body is inside try, and the catch
\* returns the empty list
extractTopicsFromContent(scrapedContent, generation) ==
  IF scrapedContent = "noValidContent" THEN Returned(<<>>)
  ELSE IF scrapedContent = "oversized" THEN Returned(<<>>)
  ELSE IF generation.threw THEN Returned(<<>>)
  ELSE IF generation.form \in {"empty", "blank"} THEN Returned(<<>>)
  ELSE Returned(deduplicateTopics(parseTopicsFromResponse(generation)))

\* of the batches before the latest one only the kind of response is kept
Summary(batch) == [batch EXCEPT !.items = NoItems]

Batch(scrapedContent, generation) ==
  [scrapedContent |-> scrapedContent, threw |-> generation.threw,
   form |-> generation.form, items |-> generation.items]

\* generateWithClaude has been called and has not settled, or was never called
Unsettled == Generation(FALSE, "pending", NoItems)
NotCalled == Generation(FALSE, "notCalled", NoItems)

AwaitingGeneration ==
  responses # <<>> /\ responses[Len(responses)].form = "pending"

InitExtract ==
  /\ IdleCore
  /\ IdleSimilarity /\ IdleHash /\ IdleScore /\ IdleTrigger
  /\ responses = <<>>
  /\ extracted = <<>>

\* extractTopicsFromContent is called for one extraction batch: without
\* content to combine it returns at once, otherwise it builds the prompt and
\* awaits generateWithClaude
CallExtractTopicsFromContent(scrapedContent) ==
  /\ ~AwaitingGeneration
  /\ Len(responses) < MaxBatches
  /\ responses' = Append([i \in 1..Len(responses) |-> Summary(responses[i])],
                         Batch(scrapedContent,
                               IF scrapedContent = "combined" THEN Unsettled ELSE NotCalled))
  /\ extracted' = IF scrapedContent = "combined" THEN <<>>
                  ELSE <<extractTopicsFromContent(scrapedContent, NotCalled)>>
  /\ UNCHANGED <<coreVars, simVars, hashVars, scoreVars, triggerVars>>

\* generateWithClaude settles (it throws or returns a text) and
\* extractTopicsFromContent runs to its end
GenerationSettles ==
  /\ AwaitingGeneration
  /\ \E generation \in Generations :
       /\ responses' = [responses EXCEPT ![Len(responses)] = Batch("combined", generation)]
       /\ extracted' = <<extractTopicsFromContent("combined", generation)>>
  /\ UNCHANGED <<coreVars, simVars, hashVars, scoreVars, triggerVars>>

NextExtract ==
  \/ \E scrapedContent \in ContentKinds : CallExtractTopicsFromContent(scrapedContent)
  \/ GenerationSettles

SpecExtract == InitExtract /\ [][NextExtract]_vars

LatestBatch == responses[Len(responses)]
LatestResult == extracted[1]

\* an item with string title, description, category and relevance and a
\* numeric trendingScore between 40 and 100
WellTypedInRange(item) ==
  /\ ~item.isNull
  /\ {item.titleType, item.descriptionType, item.categoryType, item.relevanceType}
       = {"string"}
  /\ item.trendingScoreType = "number"
  /\ Tenths(40) <= item.trendingScore
  /\ item.trendingScore <= Tenths(100)

GenerationFailure(batch) ==
  /\ batch.scrapedContent = "combined"
  /\ batch.threw \/ batch.form \in {"empty", "blank", "prose"}

RecencyWindowHours == 48

\* x || d on a number: 0 is replaced by the default
orDefault(x, d) == IF x = 0 THEN d ELSE x

\* Math.log10 in thousandths, on the counts the posts below carry
log10Milli(n) ==
  CASE n = 1 -> 0
    [] n = 2 -> 301
    [] n = 10 -> 1000
    [] n = 100 -> 2000

\* A post: score and num_comments are counts, upvote_ratio is in hundredths,
\* ageHours is (Date.now() / 1000 - created_utc) / 3600.
Counts == {0, 1, 2, 10, 100}
Ratios == {0, 30, 50, 100}
Ages == {0, 24, 47, 48, 49, 72}
Posts == [score : Counts, upvote_ratio : Ratios, num_comments : Counts, ageHours : Ages]

\* calculateTrendingScore, in units of 1/480000: thousandths for the
\* logarithms, 1/48 for the recency boost, tenths for the weights
calculateTrendingScore(p) ==
  LET score == orDefault(p.score, 0)
      upvoteRatio == orDefault(p.upvote_ratio, 50)
      commentCount == orDefault(p.num_comments, 0)
      normalizedScore == log10Milli(Max(score, 1)) * 10
      normalizedComments == log10Milli(Max(commentCount, 1)) * 10
      recencyBoost == Max(0, RecencyWindowHours - p.ageHours)
  IN normalizedScore * 4 * RecencyWindowHours
       + upvoteRatio * 2 * 1000 * RecencyWindowHours
       + normalizedComments * 3 * RecencyWindowHours
       + recencyBoost * 10 * 1000

InitScore ==
  /\ IdleCore
  /\ IdleSimilarity /\ IdleHash /\ IdleExtract /\ IdleTrigger
  /\ post \in Posts
  /\ trendingScore = NoScore

\* calculateTrendingScore(post) is called and returns
CalculateTrendingScore ==
  /\ ~trendingScore.called
  /\ trendingScore' = [called |-> TRUE, value |-> calculateTrendingScore(post)]
  /\ UNCHANGED <<post, coreVars, simVars, hashVars, extractVars, triggerVars>>

NextScore == CalculateTrendingScore

SpecScore == InitScore /\ [][NextScore]_vars

\* C20: with the other inputs held fixed, a post with a larger score, a
\* larger num_comments or a larger upvote_ratio scores strictly higher, and a
\* post with a larger age scores strictly lower, over the whole input range.
C20_StrictlyMonotone ==
  trendingScore.called =>
    \A q \in Posts :
      /\ (q.score > post.score /\ q = [post EXCEPT !.score = q.score])
           => calculateTrendingScore(q) > trendingScore.value
      /\ (q.num_comments > post.num_comments
            /\ q = [post EXCEPT !.num_comments = q.num_comments])
           => calculateTrendingScore(q) > trendingScore.value
      /\ (q.upvote_ratio > post.upvote_ratio
            /\ q = [post EXCEPT !.upvote_ratio = q.upvote_ratio])
           => calculateTrendingScore(q) > trendingScore.value
      /\ (q.ageHours > post.ageHours /\ q = [post EXCEPT !.ageHours = q.ageHours])
           => calculateTrendingScore(q) < trendingScore.value

\* ------------------------------------------------------------------------
\* More claims about a batchScrape run
\* ------------------------------------------------------------------------

\* network requests job j has sent so far: the page, post or listing fetch,
\* and one fetch per selected post of a subreddit reached so far
RequestsSent(j) ==
  CASE stage[j] = "none" -> 0
    [] stage[j] = "subpost" -> 1 + sub[j].i
    [] OTHER -> 1

\* checkRateLimit calls of job j that returned allowed
AllowedChecks(j) == IF rlCheck[j].success THEN 1 ELSE 0

\* C23: every network request a job sends is preceded by its own allowed
\* checkRateLimit call, so a job never has sent more requests than it has
\* had allowed checks.
C23_EveryRequestChecked ==
  \A j \in Jobs : RequestsSent(j) <= AllowedChecks(j)

\* the one locator of the batches that new URL() rejects
Malformed(url) == url = urlMalformed

\* C24: a job has a request in flight, or is in the pacing delay before it,
\* only if its URL is well formed and its rate-limit check returned allowed;
\* a malformed URL is a Failure with no check, no delay and no request; a
\* denied check is a Failure with no delay and no request.
C24_RequestOnlyAfterAllowedCheck ==
  \A j \in Jobs :
    /\ (stage[j] # "none" \/ pc[j] \in {"preDelay", "fetch", "body", "gap"})
         => (~Malformed(urls[j]) /\ rlCheck[j].success)
    /\ (Malformed(urls[j]) /\ pc[j] # "queued")
         => /\ outcome[j] = ScrapeError(urls[j], "Invalid URL format")
            /\ rlCheck[j] = NoCheck
            /\ stage[j] = "none"
            /\ pc[j] \in {"postDelay", "done"}
    /\ (rlCheck[j] # NoCheck /\ ~rlCheck[j].success)
         => /\ outcome[j] = ScrapeError(urls[j], "Rate limit exceeded")
            /\ stage[j] = "none"
            /\ pc[j] \in {"postDelay", "done"}

\* the store denied the check of one job, which failed without a request,
\* while another job of the same host, whose check was allowed, has its
\* request in flight
C24_Witness ==
  \E j, k \in Jobs :
    /\ rlCheck[k] = [success |-> FALSE, via |-> "store"]
    /\ stage[k] = "none"
    /\ isScrapeError(outcome[k])
    /\ rlCheck[j].success
    /\ stage[j] = "page"
    /\ pc[j] = "fetch"

\* jobs that p-limit has not started yet
Queued == {j \in Jobs : pc[j] = "queued"}

\* C25: at most `concurrency` jobs are in flight at any moment, a job holding
\* its slot from the start of scrapeUrl to the end of its post-completion
\* delay; and while a job waits for a slot, a slot is freed only by a job
\* whose post-completion delay has ended.
C25_ConcurrencyBound ==
  /\ [](Cardinality(Active) <= concurrency)
  /\ [][\A k \in Jobs :
          (pc[k] \notin {"queued", "done"} /\ pc'[k] = "done" /\ Queued # {})
            => pc[k] = "postDelay"]_vars
  /\ [][\A j \in Jobs :
          (pc[j] = "queued" /\ pc'[j] # "queued")
            => Cardinality(Active) < concurrency]_vars

\* with concurrency 1 the second job has started after the first job
\* completed and its delay ended
C25_Witness ==
  /\ concurrency = 1
  /\ Len(urls) = 2
  /\ pc[1] = "done"
  /\ outcome[1] # Pending
  /\ pc[2] \notin {"queued", "done"}

\* ------------------------------------------------------------------------
\* Specification of parseTopicsFromResponse as a function of the response
\* ------------------------------------------------------------------------
earlyVars ==
  <<batchVars, validateVars, dupVars, simVars, hashVars, scoreVars, extractVars, triggerVars>>
IdleEarly ==
  /\ IdleBatch /\ IdleValidate /\ IdleDuplicate
  /\ IdleSimilarity /\ IdleHash /\ IdleScore /\ IdleExtract /\ IdleTrigger

\* the texts generateWithClaude can return
ResponseTexts == {generation \in Generations : ~generation.threw}

NotParsed == [called |-> FALSE, topics |-> <<>>]

InitParse ==
  /\ IdleEarly
  /\ IdleOthersParse
  /\ parseInput \in ResponseTexts
  /\ parseOutput = NotParsed

ParseTopicsFromResponse ==
  /\ ~parseOutput.called
  /\ parseOutput' = [called |-> TRUE, topics |-> parseTopicsFromResponse(parseInput)]
  /\ UNCHANGED <<parseInput, earlyVars, othersParse>>

NextParse == ParseTopicsFromResponse

SpecParse == InitParse /\ [][NextParse]_vars

\* the items of the array that pass every test of the specification: an
\* object with the five fields of the right types and a score in 40..100
ValidItems(items) ==
  SelectSeq(items, LAMBDA item : ~item.isNull /\ validTopicStructure(item))

\* C30: parseTopicsFromResponse skips each invalid item of the array (wrong
\* types, score out of range, a null item) and returns every valid item of
\* the same array, in order.
C30_SkipsInvalidKeepsValid ==
  (parseOutput.called /\ parseInput.form = "array") =>
    /\ Len(parseOutput.topics) = Len(ValidItems(parseInput.items))
    /\ \A i \in 1..Len(parseOutput.topics) :
         parseOutput.topics[i] = ExtractedTopic(ValidItems(parseInput.items)[i])

\* ------------------------------------------------------------------------
\* Specification of deduplicateTopics as a function of the topic list
\* ------------------------------------------------------------------------
MaxDedup == 3

titleBoomingFast ==
  <<"AI", " ", "coding", " ", "assistants", " ", "are", " ", "booming", " ", "fast">>

titleBoomingAgain ==
  <<"AI", " ", "coding", " ", "assistants", " ", "are", " ", "booming", " ", "again">>

DedupTitles == {titleStored, titleBoomingFast, titleBoomingAgain, titlePadded, titleEarnings}
DedupScores == {Tenths(MinTrendingScore) + 100, Tenths(MaxTrendingScore) - 100}
DedupTopics == {[title |-> t, trendingScore |-> s] : t \in DedupTitles, s \in DedupScores}

NotDeduplicated == [called |-> FALSE, topics |-> <<>>]

InitDedup ==
  /\ IdleEarly
  /\ IdleOthersDedup
  /\ dedupInput \in UNION {[1..n -> DedupTopics] : n \in 0..MaxDedup}
  /\ dedupOutput = NotDeduplicated

DeduplicateTopics ==
  /\ ~dedupOutput.called
  /\ dedupOutput' = [called |-> TRUE, topics |-> deduplicateTopics(dedupInput)]
  /\ UNCHANGED <<dedupInput, earlyVars, othersDedup>>

NextDedup == DeduplicateTopics

SpecDedup == InitDedup /\ [][NextDedup]_vars

\* C26: the output of deduplicateTopics holds no two topics whose titles are
\* equal after lower-casing and trimming, and no two topics whose titles have
\* a Jaccard similarity above 0.8, for every input list and order.
C26_NoSimilarPairInOutput ==
  dedupOutput.called =>
    \A i, j \in 1..Len(dedupOutput.topics) :
      i < j =>
        /\ trim(toLowerCase(dedupOutput.topics[i].title))
             # trim(toLowerCase(dedupOutput.topics[j].title))
        /\ ~exceedsThreshold(calculateSimilarity(dedupOutput.topics[i].title,
                                                 dedupOutput.topics[j].title))

\* ------------------------------------------------------------------------
\* Specification of combineContentForBatching; strings are kept by length
\* ------------------------------------------------------------------------
MaxSources == 3
DefaultMaxChars == 15000
ExcerptFallbackLength == 500
IsoStringLength == 24

\* a ScrapedContent by the lengths of its url, title, excerpt, content and
\* metadata.openGraphDescription (0: empty or undefined), and whether it has
\* a publishDate
Content(url, title, excerpt, content, description, published) ==
  [url |-> url, title |-> title, excerpt |-> excerpt, content |-> content,
   description |-> description, published |-> published]

ScrapedContents ==
  {Content(20, 10, 30, 600, 0, FALSE),
   Content(20, 0, 30, 600, 0, FALSE),
   Content(20, 10, 0, 600, 0, FALSE),
   Content(20, 10, 30, 600, 5, TRUE),
   Content(20, 10, 30, 600, 7392, FALSE),
   Content(20, 10, 30, 600, 15000, FALSE)}

MaxCharsValues == {DefaultMaxChars, 188, 100}

RECURSIVE sumLengths(_)
sumLengths(lengths) ==
  IF lengths = <<>> THEN 0 ELSE Head(lengths) + sumLengths(Tail(lengths))

\* the length of strings.join(separator)
joinLength(lengths, separator) ==
  IF lengths = <<>> THEN 0
  ELSE sumLengths(lengths) + separator * (Len(lengths) - 1)

\* the length of the part built for one source: the lines that are not empty,
\* joined with "\n"
partLength(content) ==
  LET lines ==
        <<16 + content.url,
          7 + (IF content.title > 0 THEN content.title ELSE 8),
          9 + (IF content.excerpt > 0 THEN content.excerpt
               ELSE Min(content.content, ExcerptFallbackLength)),
          IF content.description > 0 THEN 13 + content.description ELSE 0,
          IF content.published THEN 11 + IsoStringLength ELSE 0>>
  IN joinLength(SelectSeq(lines, LAMBDA line : line > 0), 1)

\* the loop of combineContentForBatching over scrapedContent with its list parts
RECURSIVE combineFrom(_, _, _)
combineFrom(scrapedContent, parts, maxChars) ==
  IF scrapedContent = <<>> THEN parts
  ELSE LET part == partLength(Head(scrapedContent))
           currentLength == joinLength(parts, 2)
       IN IF currentLength + part > maxChars THEN parts
          ELSE combineFrom(Tail(scrapedContent), Append(parts, part), maxChars)

\* combineContentForBatching: the parts it joined and the length of the result
combineContentForBatching(scrapedContent, maxChars) ==
  LET parts == combineFrom(scrapedContent, <<>>, maxChars)
  IN [called |-> TRUE, parts |-> parts, length |-> joinLength(parts, 2)]

NotCombined == [called |-> FALSE, parts |-> <<>>, length |-> 0]

InitCombine ==
  /\ IdleEarly
  /\ IdleOthersCombine
  /\ combineInput \in UNION {[1..n -> ScrapedContents] : n \in 0..MaxSources}
  /\ combineMax \in MaxCharsValues
  /\ combineOutput = NotCombined

CombineContentForBatching ==
  /\ ~combineOutput.called
  /\ combineOutput' = combineContentForBatching(combineInput, combineMax)
  /\ UNCHANGED <<combineInput, combineMax, earlyVars, othersCombine>>

NextCombine == CombineContentForBatching

SpecCombine == InitCombine /\ [][NextCombine]_vars

\* C27: the payload of combineContentForBatching, measured as the full joined
\* string with its separators, never exceeds maxChars; the sources included
\* are a prefix of the input, in order.
C27_PayloadWithinMaxChars ==
  combineOutput.called =>
    /\ combineOutput.length <= combineMax
    /\ Len(combineOutput.parts) <= Len(combineInput)
    /\ \A i \in 1..Len(combineOutput.parts) :
         combineOutput.parts[i] = partLength(combineInput[i])

\* ------------------------------------------------------------------------
\* Specification of the subreddit discovery of scrapeRedditUrl: one job whose
\* URL is a subreddit, and the listing Reddit returns for it
\* ------------------------------------------------------------------------
MaxPosts == 8

\* postsWithScores: the posts of the listing with their trending scores
ScorePatterns == {"rising", "falling", "alternating", "flat"}
patternScore(pattern, i) ==
  CASE pattern = "rising" -> 10 * i
    [] pattern = "falling" -> 10 * (MaxPosts + 1 - i)
    [] pattern = "alternating" -> 10 + 10 * (i % 2)
    [] OTHER -> 10
postsWithScores(pattern, n) ==
  [i \in 1..n |-> [id |-> i, trendingScore |-> patternScore(pattern, i)]]
Listings == {postsWithScores(pattern, n) : pattern \in ScorePatterns, n \in 0..MaxPosts}

\* Array.prototype.sort with (a, b) => b.trendingScore - a.trendingScore: a
\* stable sort, highest score first
sortByTrendingScore(posts) ==
  LET rank(i) ==
        Cardinality({k \in 1..Len(posts) :
                       \/ posts[k].trendingScore > posts[i].trendingScore
                       \/ /\ posts[k].trendingScore = posts[i].trendingScore
                          /\ k < i}) + 1
  IN [r \in 1..Len(posts) |-> posts[CHOOSE i \in 1..Len(posts) : rank(i) = r]]

\* slice(0, 7) of the listing as it came
topTrendingPosts_unsorted(posts) ==
  SubSeq(posts, 1, Min(Len(posts), MaxSelectedPosts))

\* topTrendingPosts: sort, then slice(0, 7)
topTrendingPosts(posts) ==
  SubSeq(sortByTrendingScore(posts), 1, Min(Len(posts), MaxSelectedPosts))

InitSubreddit ==
  /\ IdleValidate /\ IdleDuplicate
  /\ IdleSimilarity /\ IdleHash /\ IdleScore /\ IdleExtract /\ IdleTrigger
  /\ IdleOthersListing
  /\ listing \in Listings
  /\ urls = <<urlSubreddit>>
  /\ concurrency = 1
  /\ configured \in BOOLEAN
  /\ t0 = 0
  /\ now = t0
  /\ audit = FALSE
  /\ InitStore(FALSE, t0)
  /\ InitJobs

\* fetchSubredditListing returned the listing
ListingReturns(j) == ListingBody(j, Len(topTrendingPosts(listing)))

NextSubreddit ==
  \/ \E j \in Jobs : StartJob(j)
  \/ \E j \in Jobs, storeUp \in BOOLEAN : LimitReturn(j, storeUp)
  \/ \E j \in Jobs : FetchAbort(j)
  \/ \E j \in Jobs : FetchError(j)
  \/ \E j \in Jobs : FetchHttpError(j)
  \/ \E j \in Jobs : FetchHeaders(j)
  \/ \E j \in Jobs : BodyError(j)
  \/ \E j \in Jobs : ListingReturns(j)
  \/ \E j \in Jobs, text \in PostTexts : SubPostBody(j, text)
  \/ \E j \in Jobs : WakeGap(j)
  \/ Tick

SpecSubreddit == InitSubreddit /\ [][NextSubreddit]_vars

\* the posts the discovery loop works on
Selected == topTrendingPosts(listing)
SelectedIds == {Selected[i].id : i \in 1..Len(Selected)}

\* C28: once the listing returned at least one post, subreddit discovery
\* scrapes at most 7 posts, those with the highest trending scores, one after
\* the other with a pause before every post except the first; a post that
\* fails does not stop the others; the result is a ScrapeError exactly when
\* no post was scraped, and otherwise exactly one aggregated ScrapedContent.
C28_SubredditDiscovery ==
  /\ [](\A j \in Jobs : stage[j] = "subpost" =>
          LET selected == Selected
              ids == {selected[i].id : i \in 1..Len(selected)}
          IN /\ Len(listing) >= 1
             /\ sub[j].n = Len(selected)
             /\ sub[j].n <= MaxSelectedPosts
             /\ sub[j].n = Min(Len(listing), MaxSelectedPosts)
             /\ Cardinality(ids) = sub[j].n
             /\ \A p \in 1..Len(listing), q \in 1..Len(selected) :
                  listing[p].id \notin ids =>
                    listing[p].trendingScore <= selected[q].trendingScore
             /\ sub[j].i \in 1..sub[j].n
             /\ sub[j].ok <= sub[j].i
             /\ pc[j] = "done" =>
                  /\ sub[j].i = sub[j].n
                  /\ isScrapeError(outcome[j]) <=> sub[j].ok = 0
                  /\ Len(results) = 1 /\ results[1] = outcome[j])
  /\ [][\A j \in Jobs :
          (stage'[j] = "subpost" /\ pc'[j] = "fetch" /\ pc[j] # "fetch") =>
            IF sub'[j].i = 1
              THEN pc[j] = "body" /\ stage[j] = "listing"
              ELSE pc[j] = "gap" /\ sub'[j] = sub[j]]_vars
  /\ [][\A j \in Jobs :
          (stage[j] = "subpost" /\ sub'[j].i # sub[j].i) =>
            /\ sub'[j].i = sub[j].i + 1
            /\ pc[j] \in {"fetch", "body"}
            /\ pc'[j] = "gap"]_vars

C28_Witness ==
  /\ Len(listing) = MaxPosts
  /\ pc[1] = "done"
  /\ stage[1] = "subpost"
  /\ sub[1].n = MaxSelectedPosts
  /\ sub[1].ok \in 1..(MaxSelectedPosts - 1)
  /\ ~isScrapeError(outcome[1])
  /\ \E p \in 1..Len(listing) :
       /\ listing[p].id \notin SelectedIds
       /\ p <= MaxSelectedPosts

\* ------------------------------------------------------------------------
\* Specification of the morning-scrape route (GET, and POST which calls GET)
\* ------------------------------------------------------------------------
\* a header of the request and the environment variable are Absent or
\* Present strings
secretConfigured == <<"s3cret">>
secretGuessed == <<"guess">>
Bearer(secret) == <<"Bearer ">> \o secret

CronSecrets == {Absent, Present(<<>>), Present(secretConfigured)}
AuthorizationHeaders ==
  {Absent, Present(<<>>), Present(Bearer(secretConfigured)), Present(Bearer(secretGuessed)),
   Present(secretConfigured), Present(Bearer(<<>>)), Present(<<"bearer ">> \o secretConfigured)}
VercelCronHeaders == {Absent, Present(<<"1">>), Present(<<"true">>)}
Methods == {"GET", "POST"}
Requests ==
  {[method |-> m, authorization |-> a, vercelCron |-> v] :
     m \in Methods, a \in AuthorizationHeaders, v \in VercelCronHeaders}

NoRequest == [method |-> "none", authorization |-> Absent, vercelCron |-> Absent]
NoResponse == [status |-> 0, body |-> "none"]
Json(status, body) == [status |-> status, body |-> body]

\* JavaScript's !s for a string or undefined
falsy(s) == ~s.defined \/ s.value = <<>>

\* the checks of GET before processAllUsersMorningScrape: the response they
\* return, or NoResponse when the request passes them
authorize(request, secret) ==
  IF falsy(secret) THEN Json(500, "Cron secret not configured")
  ELSE IF /\ (falsy(request.authorization)
               \/ request.authorization.value # Bearer(secret.value))
          /\ request.vercelCron # Present(<<"1">>)
    THEN Json(401, "Unauthorized")
  ELSE NoResponse

InitCron ==
  /\ IdleEarly
  /\ IdleOthersCron
  /\ cronSecret \in CronSecrets
  /\ cronRequest = NoRequest
  /\ cronResponse = NoResponse
  /\ cronRuns = 0

\* a request arrives: GET runs up to its return or to the await of
\* processAllUsersMorningScrape
ReceiveRequest(request) ==
  /\ cronRequest = NoRequest
  /\ cronRequest' = request
  /\ cronResponse' = authorize(request, cronSecret)
  /\ cronRuns' = IF authorize(request, cronSecret) = NoResponse THEN cronRuns + 1 ELSE cronRuns
  /\ UNCHANGED <<cronSecret, earlyVars, othersCron>>

\* processAllUsersMorningScrape returns its summary
MorningScrapeReturns ==
  /\ cronRequest # NoRequest
  /\ cronResponse = NoResponse
  /\ cronResponse' = Json(200, "success")
  /\ UNCHANGED <<cronSecret, cronRequest, cronRuns, earlyVars, othersCron>>

NextCron ==
  \/ \E request \in Requests : ReceiveRequest(request)
  \/ MorningScrapeReturns

SpecCron == InitCron /\ [][NextCron]_vars

\* the request carries Authorization: Bearer <CRON_SECRET> with the
\* configured secret
CarriesSecret ==
  /\ cronSecret.defined /\ cronSecret.value # <<>>
  /\ cronRequest.authorization = Present(Bearer(cronSecret.value))

\* C22: for every GET or POST request to the morning-scrape route,
\* processAllUsersMorningScrape is started only if the request carries the
\* header Authorization: Bearer <CRON_SECRET>; every other request is answered
\* 401, or 500 when no secret is configured, and starts no scraping.
C22_ScrapeOnlyWithSecret ==
  cronRequest # NoRequest =>
    /\ cronRuns >= 1 => CarriesSecret
    /\ ~CarriesSecret =>
         /\ cronRuns = 0
         /\ cronResponse.status = IF falsy(cronSecret) THEN 500 ELSE 401

\* ------------------------------------------------------------------------
\* Specification of processAllUsersMorningScrape (the morning run)
\* ------------------------------------------------------------------------
MaxUserSources == 2
MaxFaults == 2

UserOrder == <<"u1", "u2">>
Users == {UserOrder[i] : i \in 1..Len(UserOrder)}
SourceKinds == {"custom", "newsletter"}
SourceCounts == [SourceKinds -> 0..MaxUserSources]

\* MorningScrapeResult of one user
NewResult(userId) ==
  [userId |-> userId, customSourcesScraped |-> 0, newsletterSourcesScraped |-> 0,
   topicsFound |-> 0, postsGenerated |-> 0, errors |-> <<>>]
NoResult == NewResult("none")

\* an entry of result.errors or of allErrors, by the start of its message
ErrorEntry(kind, user, source, errors) ==
  [kind |-> kind, user |-> user, source |-> source, errors |-> errors]

NotStarted ==
  [pc |-> "idle", userIds |-> <<>>, k |-> 0, s |-> 0, result |-> NoResult,
   results |-> <<>>, allErrors |-> <<>>, totalUsers |-> 0, successfulUsers |-> 0,
   totalTopicsFound |-> 0, totalPostsGenerated |-> 0, faultsLeft |-> MaxFaults]
NoLog == [failed |-> {}, attempted |-> <<>>]

InitMorning ==
  /\ IdleEarly
  /\ IdleOthersMorning
  /\ serviceRoleEnv \in BOOLEAN
  /\ active \in [Users -> SourceCounts]
  /\ morning = NotStarted
  /\ morningLog = NoLog

\* the rows of a users-with-sources query: the users with an active source
\* of the kind
userRows(kind) == SelectSeq(UserOrder, LAMBDA u : active[u][kind] > 0)

\* Array.from(userIds) after both forEach: insertion order, no duplicates
uniqueUserIds(customRows, newsletterRows) ==
  customRows \o SelectSeq(newsletterRows,
                          LAMBDA u : \A i \in 1..Len(customRows) : customRows[i] # u)

Fault(kind, user, source) == [kind |-> kind, user |-> user, source |-> source]
Failed(kind, user, source) ==
  [morningLog EXCEPT !.failed = @ \cup {Fault(kind, user, source)}]

\* processUserMorningScrape returns result: the body of the loop over
\* uniqueUserIds after the await, then the next user or the return
userReturns(m, result) ==
  LET pushed ==
        [m EXCEPT
           !.results = Append(@, result),
           !.totalTopicsFound = @ + result.topicsFound,
           !.totalPostsGenerated = @ + result.postsGenerated,
           !.successfulUsers =
              IF result.errors = <<>> \/ result.topicsFound > 0 \/ result.postsGenerated > 0
                THEN @ + 1 ELSE @,
           !.allErrors =
              IF result.errors # <<>>
                THEN Append(@, ErrorEntry("User", result.userId, 0, result.errors))
                ELSE @]
  IN IF m.k < Len(m.userIds)
       THEN [pushed EXCEPT !.pc = "customQuery", !.k = @ + 1, !.s = 0,
                           !.result = NewResult(m.userIds[m.k + 1])]
       ELSE [pushed EXCEPT !.pc = "returned", !.result = NoResult,
                           !.totalUsers = Len(m.userIds)]

\* the catch around the body of processUserMorningScrape
userCatch(m) ==
  userReturns(m, [m.result EXCEPT
                    !.errors = Append(@, ErrorEntry("Unexpected error processing user", m.result.userId, 0, <<>>))])

\* createServiceRoleClient() throws before the try when the environment is
\* not set; otherwise the two queries for the users are sent
CallProcessAllUsersMorningScrape ==
  /\ morning.pc = "idle"
  /\ morning' = [morning EXCEPT !.pc = IF serviceRoleEnv THEN "listUsers" ELSE "thrown"]
  /\ UNCHANGED <<serviceRoleEnv, active, morningLog, earlyVars, othersMorning>>

faultCost(settled) == IF settled = "ok" THEN 0 ELSE 1

\* the two queries settle: each returns rows, returns an error, or rejects
ListUsers(customOutcome, newsletterOutcome) ==
  /\ morning.pc = "listUsers"
  /\ faultCost(customOutcome) + faultCost(newsletterOutcome) <= morning.faultsLeft
  /\ customOutcome = "rejects" => newsletterOutcome = "ok"
  /\ LET left == morning.faultsLeft - faultCost(customOutcome) - faultCost(newsletterOutcome)
         rejected == customOutcome = "rejects" \/ newsletterOutcome = "rejects"
         customError ==
           IF customOutcome = "error"
             THEN <<ErrorEntry("Failed to fetch users with custom sources", "none", 0, <<>>)>>
             ELSE <<>>
         newsletterError ==
           IF newsletterOutcome = "error"
             THEN <<ErrorEntry("Failed to fetch users with newsletter sources", "none", 0, <<>>)>>
             ELSE <<>>
         ids == uniqueUserIds(IF customOutcome = "ok" THEN userRows("custom") ELSE <<>>,
                              IF newsletterOutcome = "ok" THEN userRows("newsletter") ELSE <<>>)
     IN /\ morning' =
             IF rejected
               THEN [morning EXCEPT
                       !.pc = "returned", !.faultsLeft = left,
                       !.allErrors = Append(@, ErrorEntry("Fatal error in morning scrape", "none", 0, <<>>))]
             ELSE IF ids = <<>>
               THEN [morning EXCEPT
                       !.pc = "returned", !.faultsLeft = left,
                       !.allErrors = @ \o customError \o newsletterError]
             ELSE [morning EXCEPT
                     !.pc = "customQuery", !.faultsLeft = left, !.userIds = ids, !.k = 1,
                     !.result = NewResult(ids[1]),
                     !.allErrors = @ \o customError \o newsletterError]
        /\ morningLog' =
             [morningLog EXCEPT !.failed = @
                \cup (IF rejected THEN {Fault("Fatal error in morning scrape", "none", 0)} ELSE {})
                \cup (IF customOutcome = "error"
                        THEN {Fault("Failed to fetch users with custom sources", "none", 0)} ELSE {})
                \cup (IF newsletterOutcome = "error"
                        THEN {Fault("Failed to fetch users with newsletter sources", "none", 0)} ELSE {})]
  /\ UNCHANGED <<serviceRoleEnv, active, earlyVars, othersMorning>>

QueryMessage(kind) ==
  IF kind = "custom" THEN "Failed to fetch custom sources"
  ELSE "Failed to fetch newsletter sources"
SourceMessage(kind) ==
  IF kind = "custom" THEN "Failed to scrape custom source"
  ELSE "Failed to scrape newsletter"
QueryStep(kind) == IF kind = "custom" THEN "customQuery" ELSE "newsletterQuery"
SourceStep(kind) == IF kind = "custom" THEN "customSource" ELSE "newsletterSource"
\* what follows the sources of the kind
StepAfter(kind) == IF kind = "custom" THEN "newsletterQuery" ELSE "generate"

\* the query for the user's active sources of one kind settles
SourcesQuery(kind, settled) ==
  /\ morning.pc = QueryStep(kind)
  /\ faultCost(settled) <= morning.faultsLeft
  /\ LET u == morning.result.userId
         m == [morning EXCEPT !.faultsLeft = @ - faultCost(settled)]
     IN /\ morning' =
             IF settled = "rejects" THEN userCatch(m)
             ELSE IF settled = "error"
               THEN [m EXCEPT !.pc = StepAfter(kind),
                              !.result.errors = Append(@, ErrorEntry(QueryMessage(kind), u, 0, <<>>))]
             ELSE IF active[u][kind] > 0
               THEN [m EXCEPT !.pc = SourceStep(kind), !.s = 1]
             ELSE [m EXCEPT !.pc = StepAfter(kind)]
        /\ morningLog' =
             IF settled = "rejects" THEN Failed("Unexpected error processing user", u, 0)
             ELSE IF settled = "error" THEN Failed(QueryMessage(kind), u, 0)
             ELSE morningLog
  /\ UNCHANGED <<serviceRoleEnv, active, earlyVars, othersMorning>>

\* triggerScrape or processNewsletterEmails settles for source s of the list
SourceSettles(kind, threw, topicsFound) ==
  /\ morning.pc = SourceStep(kind)
  /\ threw => (morning.faultsLeft >= 1 /\ topicsFound = 0)
  /\ LET u == morning.result.userId
         s == morning.s
         next == IF s < active[u][kind]
                   THEN [morning EXCEPT !.s = @ + 1]
                   ELSE [morning EXCEPT !.s = 0, !.pc = StepAfter(kind)]
     IN /\ morning' =
             IF threw
               THEN [next EXCEPT !.faultsLeft = @ - 1,
                                 !.result.errors = Append(@, ErrorEntry(SourceMessage(kind), u, s, <<>>))]
             ELSE IF kind = "custom"
               THEN [next EXCEPT !.result.customSourcesScraped = @ + 1,
                                 !.result.topicsFound = @ + topicsFound]
             ELSE [next EXCEPT !.result.newsletterSourcesScraped = @ + 1,
                               !.result.topicsFound = @ + topicsFound]
        /\ morningLog' =
             [morningLog EXCEPT
                !.attempted = Append(@, <<u, kind, s>>),
                !.failed = IF threw THEN @ \cup {Fault(SourceMessage(kind), u, s)} ELSE @]
  /\ UNCHANGED <<serviceRoleEnv, active, earlyVars, othersMorning>>

GenerationOutcomes == {"posts", "NO_TOPICS", "ApiError", "Error"}

\* the user_preferences query settles and, with auto-generation enabled,
\* triggerAutoGeneration settles; processUserMorningScrape returns
Generate(prefs, settled) ==
  /\ morning.pc = "generate"
  /\ prefs \in {"disabled", "rejects"} => settled = "posts"
  /\ (prefs = "rejects" \/ settled \in {"ApiError", "Error"}) => morning.faultsLeft >= 1
  /\ LET u == morning.result.userId
         fault == prefs = "rejects" \/ settled \in {"ApiError", "Error"}
         m == [morning EXCEPT !.faultsLeft = IF fault THEN @ - 1 ELSE @]
     IN /\ morning' =
             IF prefs = "rejects" THEN userCatch(m)
             ELSE IF prefs = "disabled" THEN userReturns(m, m.result)
             ELSE IF settled = "posts"
               THEN userReturns(m, [m.result EXCEPT !.postsGenerated = 1])
             ELSE IF settled = "ApiError"
               THEN userReturns(m, [m.result EXCEPT
                      !.errors = Append(@, ErrorEntry("Failed to generate posts", u, 0, <<>>))])
             ELSE userReturns(m, m.result)
        /\ morningLog' =
             IF prefs = "rejects" THEN Failed("Unexpected error processing user", u, 0)
             ELSE IF prefs = "enabled" /\ settled \in {"ApiError", "Error"}
               THEN Failed("Failed to generate posts", u, 0)
             ELSE morningLog
  /\ UNCHANGED <<serviceRoleEnv, active, earlyVars, othersMorning>>

QueryOutcomes == {"ok", "error", "rejects"}

NextMorning ==
  \/ CallProcessAllUsersMorningScrape
  \/ \E customOutcome, newsletterOutcome \in QueryOutcomes :
       ListUsers(customOutcome, newsletterOutcome)
  \/ \E kind \in SourceKinds, settled \in QueryOutcomes : SourcesQuery(kind, settled)
  \/ \E kind \in SourceKinds, threw \in BOOLEAN, topicsFound \in 0..1 :
       SourceSettles(kind, threw, topicsFound)
  \/ \E prefs \in {"enabled", "disabled", "rejects"}, settled \in GenerationOutcomes :
       Generate(prefs, settled)

SpecMorning == InitMorning /\ [][NextMorning]_vars

RECURSIVE sumTopicsFound(_)
sumTopicsFound(rs) ==
  IF rs = <<>> THEN 0 ELSE Head(rs).topicsFound + sumTopicsFound(Tail(rs))

\* the failure is in the returned error lists: in errors, or in the errors
\* of the user's result (which errors repeats under "User")
Recorded(failure) ==
  \/ \E i \in 1..Len(morning.allErrors) :
       /\ morning.allErrors[i].kind = failure.kind
       /\ morning.allErrors[i].user = failure.user
  \/ \E i \in 1..Len(morning.results) :
       /\ morning.results[i].userId = failure.user
       /\ \E e \in 1..Len(morning.results[i].errors) :
            /\ morning.results[i].errors[e].kind = failure.kind
            /\ morning.results[i].errors[e].source = failure.source

TimesProcessed(u) ==
  Cardinality({i \in 1..Len(morning.results) : morning.results[i].userId = u})
TimesAttempted(u, kind, s) ==
  Cardinality({i \in 1..Len(morningLog.attempted) : morningLog.attempted[i] = <<u, kind, s>>})
HasActiveSource(u) == \E kind \in SourceKinds : active[u][kind] > 0
QueryFailed(u, kind) ==
  \/ Fault(QueryMessage(kind), u, 0) \in morningLog.failed
  \/ Fault("Unexpected error processing user", u, 0) \in morningLog.failed

\* C21: the morning run never throws; a failing source does not keep the
\* user's remaining sources from being processed and a failing user does not
\* keep the remaining users from being processed; every user with at least
\* one active source is processed exactly once per run; each failure is in
\* the returned error lists; totalTopicsFound is the sum of topicsFound over
\* the returned results.
C21_MorningRunContinues ==
  /\ morning.pc # "thrown"
  /\ morning.pc = "returned" =>
       /\ \A u \in Users : HasActiveSource(u) => TimesProcessed(u) = 1
       /\ \A u \in Users, kind \in SourceKinds :
            (TimesProcessed(u) = 1 /\ ~QueryFailed(u, kind)) =>
              \A s \in 1..active[u][kind] : TimesAttempted(u, kind, s) = 1
       /\ \A failure \in morningLog.failed : Recorded(failure)
       /\ morning.totalTopicsFound = sumTopicsFound(morning.results)

\* ------------------------------------------------------------------------
\* Specification of the two pipelines of one tenant writing to the Topic
\* Store: triggerScrape and processNewsletterEmails from the extracted topics
\* to the insert
\* ------------------------------------------------------------------------
MaxPipelineRuns == 2
MaxExtracted == 2

Pipelines == {"triggerScrape", "processNewsletterEmails"}
storeTenant == "u1"

\* titles as parseTopicsFromResponse leaves them: trimmed
ExtractedTitles == {titleStored, trim(titlePadded), titleFourOfFive, titleEarnings}
ExtractedTopics ==
  {[title |-> t, trendingScore |-> Tenths(MaxTrendingScore)] : t \in ExtractedTitles}

\* what extractTopicsFromContent can return: deduplicated lists
ExtractedLists ==
  {deduplicateTopics(topics) :
     topics \in UNION {[1..n -> ExtractedTopics] : n \in 0..MaxExtracted}}

NoPipeline == [pc |-> "idle", topics |-> <<>>, i |-> 0, uniqueTopics |-> <<>>]

\* the row inserted for a topic: discovered now, without expiry
insertedRow(topic, userId) ==
  [user_id |-> userId, title |-> topic.title, discoveredDaysAgo |-> 0,
   hasExpiry |-> FALSE, expiresInDays |-> 0]

InitPipelines ==
  /\ IdleEarly
  /\ IdleOthersStore
  /\ topicTable = <<>>
  /\ pipeline = [p \in Pipelines |-> NoPipeline]
  /\ pipelineRuns = 0

\* extractTopicsFromContent returned at least one topic: the run enters
\* filterDuplicateTopics
TopicsExtracted(p, topics) ==
  /\ pipeline[p].pc = "idle"
  /\ pipelineRuns < MaxPipelineRuns
  /\ topics # <<>>
  /\ pipelineRuns' = pipelineRuns + 1
  /\ pipeline' = [pipeline EXCEPT ![p] =
        [pc |-> "filter", topics |-> topics, i |-> 1, uniqueTopics |-> <<>>]]
  /\ UNCHANGED <<topicTable, earlyVars, othersStore>>

\* filterDuplicateTopics: isDuplicateTopic settles for topic i, read from the
\* table as it is now; after the last topic the run returns when nothing is
\* left, and otherwise goes on to the insert
TopicChecked(p, error) ==
  /\ pipeline[p].pc = "filter"
  /\ LET run29 == pipeline[p]
         topic == run29.topics[run29.i]
         isDuplicate == isDuplicateTopic(topic.title, storeTenant, topicTable, error)
         uniqueTopics == IF isDuplicate THEN run29.uniqueTopics
                         ELSE Append(run29.uniqueTopics, topic)
     IN pipeline' = [pipeline EXCEPT ![p] =
          IF run29.i < Len(run29.topics)
            THEN [run29 EXCEPT !.i = @ + 1, !.uniqueTopics = uniqueTopics]
          ELSE IF uniqueTopics = <<>> THEN NoPipeline
          ELSE [run29 EXCEPT !.pc = "insert", !.uniqueTopics = uniqueTopics]]
  /\ UNCHANGED <<topicTable, pipelineRuns, earlyVars, othersStore>>

\* the insert into trending_topics settles: all rows are stored, or none
TopicsInserted(p, insertError) ==
  /\ pipeline[p].pc = "insert"
  /\ topicTable' =
       IF insertError THEN topicTable
       ELSE topicTable \o [k \in 1..Len(pipeline[p].uniqueTopics) |->
                             insertedRow(pipeline[p].uniqueTopics[k], storeTenant)]
  /\ pipeline' = [pipeline EXCEPT ![p] = NoPipeline]
  /\ UNCHANGED <<pipelineRuns, earlyVars, othersStore>>

NextPipelines ==
  \/ \E p \in Pipelines : \E topics \in ExtractedLists : TopicsExtracted(p, topics)
  \/ \E p \in Pipelines, error \in BOOLEAN : TopicChecked(p, error)
  \/ \E p \in Pipelines, insertError \in BOOLEAN : TopicsInserted(p, insertError)

SpecPipelines == InitPipelines /\ [][NextPipelines]_vars

\* C29: after any sequence of pipeline runs for one tenant, interleaved or
\* not, the Topic Store never holds two non-expired topics of the tenant,
\* discovered within 30 days of each other, whose titles are equal after
\* lower-casing and trimming or have a Jaccard similarity of at least 0.8.
C29_NoNearDuplicatesStored ==
  \A i, j \in 1..Len(topicTable) :
    i < j =>
      /\ ~SameTitle(topicTable[i].title, topicTable[j].title)
      /\ ~JaccardAtLeastThreshold(topicTable[i].title, topicTable[j].title)

====
